---- MODULE Spec2Model ----
(***************************************************************************)
(* Verification model of the "Mete o Shape" WhatsApp bot (src/server.py,   *)
(* src/storage.py): the conversation state machine build_reply, the        *)
(* schedule planner and the reminder dispatcher _run_cron_now.             *)
(*                                                                         *)
(* Representation.                                                         *)
(*   - A message body is a sequence of one-character strings, so that      *)
(*     strip/lower/int()/split are computed and not assumed.  Characters   *)
(*     outside ASCII are written by name ("a_acute", "endash").            *)
(*   - A Python dict is a function; its keys are DOMAIN d.  A missing key  *)
(*     is a key outside the domain (Get gives the default).                *)
(*   - None is NoneT (-1) for the training hour and <<>> for mute_hours.   *)
(*   - Weights are kept in tenths of a kilogram (57.5 kg = 575), litres in *)
(*     tenths, energy in exact rationals scaled to integers (quarters of a *)
(*     kcal and finer), rounded as Python rounds the doubles.              *)
(*   - A calendar date is a day number; day 0 is a Monday.                 *)
(*   - The display strings "170-179 cm" and "16-24" are the pairs          *)
(*     <<170, 179>> and <<16, 24>>; the open brackets ">=190 cm" and       *)
(*     "100+ kg" are <<190>> and <<100>>.                                  *)
(*   - The reply text is not part of the state: build_reply gives the      *)
(*     record it leaves and whether it called save_db.                     *)
(*   - "Emitted" means handed to _send_whatsapp.                           *)
(*                                                                         *)
(* Specifications.                                                         *)
(*   Spec      the dispatcher with ticks that run from load to save in     *)
(*             one piece, transport and per-user faults, two users;        *)
(*   SpecConc  the two dispatcher threads interleaved between load_db and  *)
(*             save_db, where storage.py holds no lock;                    *)
(*   SpecFlow  the conversation of one user, message by message, with the  *)
(*             dispatcher's ticks in between;                              *)
(*   SpecCalc  the confirmation of every profile the questionnaire can     *)
(*             store;                                                      *)
(*   SpecPath  one new user answering the questionnaire from the greeting  *)
(*             to the plan;                                                *)
(*   SpecRace  one POST /bot handler and the scheduler's thread, each      *)
(*             load-mutate-save cycle split between load_db and save_db;   *)
(*   SpecPlan  one call of a planner function (_split_by_meals,            *)
(*             _distribute_meal_hours, _in_mute, _force_post_workout,      *)
(*             _water_slots) on arguments of its domain;                   *)
(*   SpecTest  the dispatcher with a user who also sends the test          *)
(*             commands, which switch the scheduler to the test executor.  *)
(*                                                                         *)
(* The test mode (#ativar3m, _run_cron_test_now) keeps its state in the    *)
(* process globals TEST_MODE and TEST_TARGETS; the test commands leave the *)
(* persisted record alone, and the test executor sends no slot message.    *)
(***************************************************************************)
EXTENDS Integers, Sequences, FiniteSets, TLC

\* ------------------------------------------------------------------ dicts
EmptyDict == <<>>

Has(d, k) == k \in DOMAIN d

Get(d, k, dflt) == IF k \in DOMAIN d THEN d[k] ELSE dflt

Put(d, k, v) == [x \in (DOMAIN d) \cup {k} |-> IF x = k THEN v ELSE d[x]]

Max2(a, b) == IF a >= b THEN a ELSE b

Min2(a, b) == IF a <= b THEN a ELSE b

Abs(a) == IF a < 0 THEN -a ELSE a

\* ---------------------------------------------------------------- strings
DigitChars == <<"0", "1", "2", "3", "4", "5", "6", "7", "8", "9">>

UpperChars == <<"A", "B", "C", "D", "E", "F", "G", "H", "I", "J", "K", "L", "M",
                "N", "O", "P", "Q", "R", "S", "T", "U", "V", "W", "X", "Y", "Z",
                "A_acute", "C_cedilla", "U_acute">>

LowerChars == <<"a", "b", "c", "d", "e", "f", "g", "h", "i", "j", "k", "l", "m",
                "n", "o", "p", "q", "r", "s", "t", "u", "v", "w", "x", "y", "z",
                "a_acute", "c_cedilla", "u_acute">>

IsDigit(c) == \E i \in DOMAIN DigitChars : DigitChars[i] = c

DigitVal(c) == (CHOOSE i \in DOMAIN DigitChars : DigitChars[i] = c) - 1

IsUpper(c) == \E i \in DOMAIN UpperChars : UpperChars[i] = c

IsLower(c) == \E i \in DOMAIN LowerChars : LowerChars[i] = c

IsSpace(c) == c = " "

LowerChar(c) ==
    IF IsUpper(c) THEN LowerChars[CHOOSE i \in DOMAIN UpperChars : UpperChars[i] = c] ELSE c

UpperChar(c) ==
    IF IsLower(c) THEN UpperChars[CHOOSE i \in DOMAIN LowerChars : LowerChars[i] = c] ELSE c

\* str.lower()
Lower(s) == [i \in 1..Len(s) |-> LowerChar(s[i])]

RECURSIVE LStrip(_)
LStrip(s) == IF s # <<>> /\ IsSpace(Head(s)) THEN LStrip(Tail(s)) ELSE s

RECURSIVE RStrip(_)
RStrip(s) == IF s # <<>> /\ IsSpace(s[Len(s)]) THEN RStrip(SubSeq(s, 1, Len(s) - 1)) ELSE s

\* str.strip()
Strip(s) == RStrip(LStrip(s))

\* "x" in s
Contains(s, c) == \E i \in 1..Len(s) : s[i] = c

\* s.startswith(p)
StartsWith(s, p) == Len(s) >= Len(p) /\ SubSeq(s, 1, Len(p)) = p

\* s.split()[0] of a stripped, non-empty s: the first run of non-blank characters
FirstWord(s) ==
    LET t == LStrip(s)
        cut == IF \E i \in 1..Len(t) : IsSpace(t[i])
               THEN (CHOOSE i \in 1..Len(t) : IsSpace(t[i]) /\ \A j \in 1..(i - 1) : ~IsSpace(t[j])) - 1
               ELSE Len(t)
    IN SubSeq(t, 1, cut)

\* str.title(): a cased character is upper-cased after an uncased one, lower-cased after a cased one
Title(s) ==
    [i \in 1..Len(s) |->
        IF i > 1 /\ (IsUpper(s[i - 1]) \/ IsLower(s[i - 1]))
        THEN LowerChar(s[i]) ELSE UpperChar(s[i])]

\* "".join(ch for ch in s if ch.isdigit())
_digits_only(s) == SelectSeq(s, IsDigit)

RECURSIVE DigitsValue(_)
DigitsValue(ds) ==
    IF ds = <<>> THEN 0 ELSE 10 * DigitsValue(SubSeq(ds, 1, Len(ds) - 1)) + DigitVal(ds[Len(ds)])

AllDigits(s) == s # <<>> /\ \A i \in 1..Len(s) : IsDigit(s[i])

\* int(s): optional blanks, an optional sign, one or more digits.  [ok, val]; ok = FALSE is ValueError.
PyInt(s0) ==
    LET s == Strip(s0)
        signed == s # <<>> /\ Head(s) \in {"+", "-"}
        ds == IF signed THEN Tail(s) ELSE s
    IN IF AllDigits(ds)
       THEN [ok |-> TRUE, val |-> IF signed /\ Head(s) = "-" THEN -DigitsValue(ds) ELSE DigitsValue(ds)]
       ELSE [ok |-> FALSE, val |-> 0]

_clamp_hour(h) == Max2(0, Min2(23, h))

\* 'HH-HH' -> <<start, end>>, or <<>> for None
_parse_hh_range(s0) ==
    LET s1 == SelectSeq(s0, LAMBDA c : c # " ")
        s == [i \in 1..Len(s1) |-> IF s1[i] \in {"emdash", "endash"} THEN "-" ELSE s1[i]]
    IN IF ~Contains(s, "-") THEN <<>>
       ELSE LET p == CHOOSE i \in 1..Len(s) : s[i] = "-" /\ \A j \in 1..(i - 1) : s[j] # "-"
                a == PyInt(SubSeq(s, 1, p - 1))
                b == PyInt(SubSeq(s, p + 1, Len(s)))
            IN IF a.ok /\ b.ok THEN <<_clamp_hour(a.val), _clamp_hour(b.val)>> ELSE <<>>

_in_window(hour, A, B) == IF A <= B THEN A <= hour /\ hour <= B ELSE FALSE

\* a mute window that never crosses midnight (not what the code does)
_in_mute_same_day(hour, M, N) == M = N \/ (M <= hour /\ hour < N)

_in_mute(hour, M, N) ==
    IF M = N THEN TRUE
    ELSE IF M < N THEN M <= hour /\ hour < N
    ELSE hour >= M \/ hour < N

\* ----------------------------------------------------------------- tables
NoneT == -1

START_WORDS == {<<"o", "i">>, <<"o", "l", "a">>, <<"o", "l", "a_acute">>,
                <<"b", "o", "m", " ", "d", "i", "a">>,
                <<"b", "o", "a", " ", "t", "a", "r", "d", "e">>,
                <<"b", "o", "a", " ", "n", "o", "i", "t", "e">>}

RESET_WORDS == {<<"r", "e", "i", "n", "i", "c", "i", "a", "r">>, <<"r", "e", "s", "e", "t">>,
                <<"r", "e", "c", "o", "m", "e", "c_cedilla", "a", "r">>,
                <<"r", "e", "c", "o", "m", "e", "c", "a", "r">>}

STATUS_WORDS == {<<"p", "i", "n", "g">>, <<"s", "t", "a", "t", "u", "s">>, <<"u", "p">>}

TEST_SECRET == <<"#", "a", "t", "i", "v", "a", "r", "3", "m">>

TEST_SECRET_OFF == <<"#", "d", "e", "s", "a", "t", "i", "v", "a", "r", "3", "m">>

TEST_SECRET_STATUS == <<"#", "s", "t", "a", "t", "u", "s", "3", "m">>

AI_TRIGGERS == {<<"d", "u", "v", "i", "d", "a">>, <<"d", "u_acute", "v", "i", "d", "a">>,
                <<"a", "j", "u", "d", "a">>, <<"p", "e", "r", "g", "u", "n", "t", "a">>}

PAUSAR == <<"p", "a", "u", "s", "a", "r">>

ATIVAR == <<"a", "t", "i", "v", "a", "r">>

PULAR == <<"p", "u", "l", "a", "r">>

\* (low, high, mid)
AGE_MAP == (<<"1">> :> <<16, 24, 21>>) @@ (<<"2">> :> <<25, 34, 29>>) @@ (<<"3">> :> <<35, 44, 39>>) @@
           (<<"4">> :> <<45, 54, 49>>) @@ (<<"5">> :> <<55, 64, 59>>) @@ (<<"6">> :> <<65, 75, 68>>)

\* a height table with every choice one bracket too high (not what the code has)
HEIGHT_MAP_SHIFTED ==
    (<<"1">> :> <<160, 169, 165>>) @@ (<<"2">> :> <<170, 179, 175>>) @@ (<<"3">> :> <<180, 189, 185>>) @@
    (<<"4">> :> <<190, 205, 195>>) @@ (<<"5">> :> <<190, 205, 195>>)

\* cm (low, high, mid)
HEIGHT_MAP == (<<"1">> :> <<150, 159, 158>>) @@ (<<"2">> :> <<160, 169, 165>>) @@
              (<<"3">> :> <<170, 179, 175>>) @@ (<<"4">> :> <<180, 189, 185>>) @@
              (<<"5">> :> <<190, 205, 195>>)

\* kg (low, high, mid in tenths of a kg)
WEIGHT_MAP == (<<"1">> :> <<50, 59, 575>>) @@ (<<"2">> :> <<60, 69, 650>>) @@
              (<<"3">> :> <<70, 79, 750>>) @@ (<<"4">> :> <<80, 89, 850>>) @@
              (<<"5">> :> <<90, 99, 950>>) @@ (<<"6">> :> <<100, 130, 1050>>)

ACTIVITY_CHOICE == (<<"1">> :> "Sedentario") @@ (<<"2">> :> "Leve") @@
                   (<<"3">> :> "Moderado") @@ (<<"4">> :> "Intenso")

OBJECTIVE_CHOICE == (<<"1">> :> "Emagrecimento") @@ (<<"2">> :> "Manutencao") @@ (<<"3">> :> "Hipertrofia")

RESTR_CHOICE == (<<"1">> :> "Sem restricoes") @@ (<<"2">> :> "Sem lactose") @@
                (<<"3">> :> "Vegetariano") @@ (<<"4">> :> "Low-carb") @@ (<<"5">> :> "Outras")

\* activity factor, in twentieths (1.25, 1.40, 1.55, 1.70)
ACTIVITY_FACTOR == [Sedentario |-> 25, Leve |-> 28, Moderado |-> 31, Intenso |-> 34]

\* the double nearest to each factor, as its distance from the factor in fifths of 2^-52:
\* 1.25 is exact, 1.40 and 1.70 are stored below, 1.55 above
FACTOR_ULP_ERR == [Sedentario |-> 0, Leve |-> -2, Moderado |-> 1, Intenso |-> -1]

\* 1 + objective adjustment, in twentieths (0.85, 1.00, 1.10)
OBJ_CAL_ADJ == [Emagrecimento |-> 17, Manutencao |-> 20, Hipertrofia |-> 22]

TRAIN_CHOICE == (<<"1">> :> 6) @@ (<<"2">> :> 12) @@ (<<"3">> :> 17) @@
                (<<"4">> :> 18) @@ (<<"5">> :> 19) @@ (<<"6">> :> 20)

FEED_PRESET == (<<"1">> :> <<8, 20>>) @@ (<<"2">> :> <<7, 21>>) @@ (<<"3">> :> <<6, 22>>) @@ (<<"4">> :> <<10, 18>>)

MUTE_PRESET == (<<"1">> :> <<22, 5>>) @@ (<<"2">> :> <<23, 6>>) @@ (<<"3">> :> <<0, 6>>)

MEAL_CHOICE == (<<"1">> :> 3) @@ (<<"2">> :> 4) @@ (<<"3">> :> 5) @@ (<<"4">> :> 6)

\* ------------------------------------------------------------- calculator
\* round(p / q) as Python rounds a float: to nearest, ties to even (q > 0)
RoundHalfEven(p, q) ==
    LET f == p \div q
        r == p - f * q
    IN IF 2 * r < q THEN f
       ELSE IF 2 * r > q THEN f + 1
       ELSE IF f % 2 = 0 THEN f ELSE f + 1

\* a rounding to the nearest unit whatever the base (not what the code does)
_round_to_unit(p, q, base) == RoundHalfEven(p, q)

\* _round(p / q, base) == int(base * round((p / q) / base))
_round(p, q, base) == base * RoundHalfEven(p, q * base)

\* a Mifflin-St Jeor with the constant of women for everyone (not what the code does)
_calc_tmb_unsexed(sexo, peso_t, altura_cm, idade) == 4 * peso_t + 25 * altura_cm - 20 * idade - 4 * 161

\* Mifflin-St Jeor, in quarters of a kcal; peso_t in tenths of a kg
_calc_tmb_mifflin(sexo, peso_t, altura_cm, idade) ==
    4 * peso_t + 25 * altura_cm - 20 * idade + 4 * (IF sexo = "Masculino" THEN 5 ELSE -161)

\* tmb4 in 1/4 kcal -> TDEE in 1/80 kcal
_calc_get(tmb4, atividade) == tmb4 * Get(ACTIVITY_FACTOR, atividade, 28)

\* an objective that would leave the TDEE as it is (not what the code does)
_apply_no_objective(tdee, objetivo) == tdee * 20

\* TDEE in 1/80 kcal -> target in 1/1600 kcal
_apply_objective(tdee, objetivo) == tdee * Get(OBJ_CAL_ADJ, objetivo, 20)

RECURSIVE Pow2Floor(_)
\* the largest power of two not above n (n >= 1)
Pow2Floor(n) == IF n < 2 THEN 1 ELSE 2 * Pow2Floor(n \div 2)

\* int(round(tdee)) of the double product tmb * factor.  Off a tie the double and the
\* exact product round alike.  On a tie k + 1/2 the double product lies off the tie by
\* |err| / 5 * tmb * 2^-52, on the side of the stored factor; when that exceeds half the
\* spacing of doubles at k (Pow2Floor(k) * 2^-53) the product is no longer a tie.
TdeeRounded(tmb4, atividade) ==
    LET tdee == _calc_get(tmb4, atividade)
        k    == tdee \div 80
        err  == Get(FACTOR_ULP_ERR, atividade, -2)
    IN IF tdee % 80 = 40 /\ k >= 1 /\ Abs(err) * tmb4 > 10 * Pow2Floor(k)
       THEN (IF err < 0 THEN k ELSE k + 1)
       ELSE RoundHalfEven(tdee, 80)

\* <<prot_g, carb_g, gord_g>>
_calc_macros(peso_t, cal_alvo) ==
    LET rest == 75 * cal_alvo - 80 * peso_t        \* 100 * (cal - 4 * prot - 0.25 * cal)
    IN << RoundHalfEven(2 * peso_t, 10),
          RoundHalfEven(Max2(0, rest), 400),
          RoundHalfEven(25 * cal_alvo, 900) >>

RECURSIVE SplitAdjust(_, _, _, _)
SplitAdjust(parts, diff, i, meals) ==
    IF diff = 0 THEN parts
    ELSE IF diff > 0
         THEN SplitAdjust([parts EXCEPT ![i] = @ + 1], diff - 1, (i % meals) + 1, meals)
         ELSE IF parts[i] > 0
              THEN SplitAdjust([parts EXCEPT ![i] = @ - 1], diff + 1, (i % meals) + 1, meals)
              ELSE SplitAdjust(parts, diff, (i % meals) + 1, meals)

RECURSIVE SumSeq(_)
SumSeq(s) == IF s = <<>> THEN 0 ELSE Head(s) + SumSeq(Tail(s))

\* every part the rounded share, with no adjustment to the total (not what the code does)
_split_rounded(total, meals) == [i \in 1..meals |-> RoundHalfEven(total, meals)]

\* the parts "Ref 1" .. "Ref n", in order
_split_by_meals(total, meals) ==
    LET parts == [i \in 1..meals |-> RoundHalfEven(total, meals)]
    IN SplitAdjust(parts, total - SumSeq(parts), 1, meals)

\* ------------------------------------------------- conversation state machine
\* users.setdefault(uid, {...})
NewUser == [flow |-> "ms", step |-> 0, data |-> EmptyDict, schedule |-> [last |-> EmptyDict]]

_maybe_route_to_ai(text, step) ==
    \/ step >= 999
    \/ Contains(text, "?")
    \/ \E g \in AI_TRIGGERS : StartsWith(text, g)

\* any number typed taken as the age (not what the code does)
ExactAgeUnchecked(idade_exata, estimada) == idade_exata

\* step 4: the typed age if 10 < idade_exata < 100, else data.get("idade_estimada", 30)
ExactAge(idade_exata, estimada) == IF 10 < idade_exata /\ idade_exata < 100 THEN idade_exata ELSE estimada

\* a save that would store the answer and keep the step (not what the code does)
SavedInPlace(st, n, data) == [st |-> Put(st, "data", data), saved |-> TRUE]

\* a rejection that would move on to the next step all the same (not what the code does)
Skipped(st) == [st |-> Put(st, "step", Get(st, "step", 0) + 1), saved |-> TRUE]

\* st["step"] = n; st["data"] = data; users[uid] = st; save_db(db)
Saved(st, n, data) == [st |-> Put(Put(st, "step", n), "data", data), saved |-> TRUE]

\* return without save_db: the loaded copy is dropped
Unsaved(st) == [st |-> st, saved |-> FALSE]

\* Step 11, input "1": BMR -> TDEE -> target calories -> macros
Confirm(st, data) ==
    LET sexo      == Get(data, "sexo", "Masculino")
        idade     == Get(data, "idade_exata", Get(data, "idade_estimada", 30))
        peso      == Get(data, "peso_kg_est", 750)
        altura    == Get(data, "altura_cm_est", 175)
        objetivo  == Get(data, "objetivo", "Manutencao")
        atividade == Get(data, "atividade", "Leve")
        tmb       == _calc_tmb_mifflin(sexo, peso, altura, idade)
        tdee      == _calc_get(tmb, atividade)
        cal_alvo  == _apply_objective(tdee, objetivo)
        cal_final == Max2(1200, _round(cal_alvo, 1600, 10))
        mac       == _calc_macros(peso, cal_final)
        d1 == Put(data, "tmb", RoundHalfEven(tmb, 4))
        d2 == Put(d1, "tdee", TdeeRounded(tmb, atividade))
        d3 == Put(d2, "calorias", cal_final)
        d4 == Put(Put(Put(d3, "prot_g", mac[1]), "carb_g", mac[2]), "gord_g", mac[3])
    IN Saved(st, 12, d4)

\* a step 12 that would finish without the splits and the hydration (not what the code does)
CompleteUnsplit(st, data, schedule, text) ==
    [st |-> Put(Put(Put(st, "step", 999), "data", Put(data, "meal_count", MEAL_CHOICE[text])),
                "schedule", Put(schedule, "enabled", TRUE)),
     saved |-> TRUE]

\* Step 12, a valid meal count: splits, hydration, schedule enabled, step 999
Complete(st, data, schedule, text) ==
    LET meals  == MEAL_CHOICE[text]
        d1 == Put(data, "meal_count", meals)
        d2 == Put(Put(Put(Put(d1, "split_kcal", _split_by_meals(d1["calorias"], meals)),
                                  "split_p", _split_by_meals(d1["prot_g"], meals)),
                                  "split_c", _split_by_meals(d1["carb_g"], meals)),
                                  "split_g", _split_by_meals(d1["gord_g"], meals))
        peso    == Get(d2, "peso_kg_est", 750)
        agua_ml == RoundHalfEven(37 * peso, 10)
        agua_l  == Max2(20, RoundHalfEven(agua_ml, 100))          \* tenths of a litre
        \* round(agua_l * 0.30, 1): the one tie a stored weight gives, 3.5 * 0.30, is the
        \* double 1.05000000000000004 and rounds up
        split   == [manha |-> RoundHalfEven(33 * agua_l, 100),
                    tarde |-> RoundHalfEven(37 * agua_l, 100),
                    noite |-> IF agua_l = 35 THEN 11 ELSE RoundHalfEven(30 * agua_l, 100)]
        d3 == Put(Put(d2, "agua_l", agua_l), "agua_split", split)
        sch == Put(IF Has(schedule, "last") THEN schedule ELSE Put(schedule, "last", EmptyDict),
                   "enabled", TRUE)
    IN [st |-> Put(Put(Put(st, "step", 999), "data", d3), "schedule", sch), saved |-> TRUE]

\* a pausar/ativar that would start the schedule anew, markers included (not what the code does)
SetEnabledAnew(st, flag) ==
    [st |-> Put(st, "schedule", [enabled |-> flag, last |-> EmptyDict]), saved |-> TRUE]

\* st["schedule"]["enabled"] = flag; save_db(db)
SetEnabled(st, flag) ==
    [st |-> Put(st, "schedule", Put(st["schedule"], "enabled", flag)), saved |-> TRUE]

\* a reset that would keep the schedule, markers included (not what the code does)
ResetKeepingMarkers(st) == [st |-> Put(Put(st, "step", 0), "data", EmptyDict), saved |-> TRUE]

\* st["step"] = 0; st["data"] = {}; st["schedule"] = {"last": {}}; users[uid] = st; save_db(db)
Reset(st) ==
    [st |-> Put(Put(Put(st, "step", 0), "data", EmptyDict), "schedule", [last |-> EmptyDict]), saved |-> TRUE]

\* a greeting that would start the questionnaire over wherever it arrives (not what the code does)
GreetedAfresh(st) == [st |-> Put(Put(st, "step", 1), "data", EmptyDict), saved |-> TRUE]

\* a greeting in mid-questionnaire: the reminder that reiniciar exists, nothing saved
Greeted(st) == [st |-> st, saved |-> FALSE]

\* a greeting at step 0 that would go past the name question (not what the code does)
WelcomeToSex(st) == [st |-> Put(Put(st, "step", 2), "data", EmptyDict), saved |-> TRUE]

\* step 0, a greeting: st["step"] = 1; st["data"] = {}; users[uid] = st; save_db(db)
Welcome(st) == Saved(st, 1, EmptyDict)

\* a restart at the confirmation question that would keep the answers (not what the code does)
RestartKeeping(st) == [st |-> Put(st, "step", 0), saved |-> TRUE]

\* step 11, input "2": st["step"] = 0; st["data"] = {}; users[uid] = st; save_db(db)
Restart(st) == Saved(st, 0, EmptyDict)

\* the questions of build_reply, by step (steps 1 .. 999 and the fallback)
StepReply(st, step, text, body, media, data, schedule) ==
    CASE step = 1 ->
         LET nome == Strip(body)
         IN IF Len(nome) < 2 THEN Unsaved(st)
            ELSE Saved(st, 2, Put(data, "nome", Title(FirstWord(nome))))
      [] step = 2 ->
         IF text \notin {<<"1">>, <<"2">>} THEN Unsaved(st)
         ELSE Saved(st, 3, Put(data, "sexo", IF text = <<"1">> THEN "Masculino" ELSE "Feminino"))
      [] step = 3 ->
         IF text \notin DOMAIN AGE_MAP THEN Unsaved(st)
         ELSE Saved(st, 4, Put(Put(data, "idade_faixa", <<AGE_MAP[text][1], AGE_MAP[text][2]>>),
                               "idade_estimada", AGE_MAP[text][3]))
      [] step = 4 ->
         Saved(st, 5, Put(data, "idade_exata",
                          ExactAge(DigitsValue(_digits_only(body)), Get(data, "idade_estimada", 30))))
      [] step = 5 ->
         IF text \notin DOMAIN HEIGHT_MAP THEN Unsaved(st)
         ELSE LET e == HEIGHT_MAP[text]
              IN Saved(st, 6, Put(Put(data, "altura_faixa", IF e[2] # 205 THEN <<e[1], e[2]>> ELSE <<190>>),
                                  "altura_cm_est", e[3]))
      [] step = 6 ->
         IF text \notin DOMAIN WEIGHT_MAP THEN Unsaved(st)
         ELSE LET e == WEIGHT_MAP[text]
              IN Saved(st, 7, Put(Put(data, "peso_faixa", IF e[2] # 130 THEN <<e[1], e[2]>> ELSE <<100>>),
                                  "peso_kg_est", e[3]))
      [] step = 7 ->
         IF text \notin DOMAIN ACTIVITY_CHOICE THEN Unsaved(st)
         ELSE Saved(st, 8, Put(data, "atividade", ACTIVITY_CHOICE[text]))
      [] step = 8 ->
         IF text \notin DOMAIN OBJECTIVE_CHOICE THEN Unsaved(st)
         ELSE Saved(st, 9, Put(data, "objetivo", OBJECTIVE_CHOICE[text]))
      [] step = 9 ->
         IF text \notin DOMAIN RESTR_CHOICE THEN Unsaved(st)
         ELSE Saved(st, IF text = <<"5">> THEN 91 ELSE 10, Put(data, "restricoes", RESTR_CHOICE[text]))
      [] step = 91 ->
         LET obs == Strip(body)
         IN IF obs = <<>> THEN Unsaved(st)
            ELSE Saved(st, 10, Put(data, "restricoes_obs", obs))
      [] step = 10 ->
         IF text \notin {<<"1">>, <<"2">>} THEN Unsaved(st)
         ELSE [st |-> Put(st, "step", IF text = <<"1">> THEN 92 ELSE 100), saved |-> TRUE]
      [] step = 92 ->
         \* both branches of "if media_urls" return, so the "step == 92 and text == 'pular'"
         \* block that follows in the source is never reached
         IF media # <<>>
         THEN Saved(st, 100, Put(data, "fotos", Get(data, "fotos", <<>>) \o SubSeq(media, 1, Min2(3, Len(media)))))
         ELSE Unsaved(st)
      [] step = 100 ->
         IF text \in DOMAIN TRAIN_CHOICE THEN Saved(st, 101, Put(data, "training_hour", TRAIN_CHOICE[text]))
         ELSE IF text = <<"7">> THEN Saved(st, 101, Put(data, "training_hour", NoneT))
         ELSE IF text = <<"8">> THEN Unsaved(st)
         ELSE IF PyInt(text).ok
              THEN Saved(st, 101, Put(data, "training_hour", _clamp_hour(PyInt(text).val)))
              ELSE Unsaved(st)
      [] step = 101 ->
         IF text \in DOMAIN FEED_PRESET THEN Saved(st, 102, Put(data, "feeding_window", FEED_PRESET[text]))
         ELSE IF _parse_hh_range(body) = <<>> THEN Unsaved(st)
         ELSE Saved(st, 102, Put(data, "feeding_window", _parse_hh_range(body)))
      [] step = 102 ->
         IF text = <<"4">> THEN Saved(st, 11, Put(data, "mute_hours", <<>>))
         ELSE IF text \in DOMAIN MUTE_PRESET THEN Saved(st, 11, Put(data, "mute_hours", MUTE_PRESET[text]))
         ELSE IF _parse_hh_range(body) = <<>> THEN Unsaved(st)
         ELSE Saved(st, 11, Put(data, "mute_hours", _parse_hh_range(body)))
      [] step = 11 ->
         IF text = <<"2">> THEN Restart(st)
         ELSE IF text # <<"1">> THEN Unsaved(st)
         ELSE Confirm(st, data)
      [] step = 12 ->
         IF text \notin DOMAIN MEAL_CHOICE THEN Unsaved(st)
         ELSE Complete(st, data, schedule, text)
      [] step >= 999 ->
         IF text = PAUSAR THEN SetEnabled(st, FALSE)
         ELSE IF text = ATIVAR THEN SetEnabled(st, TRUE)
         ELSE Unsaved(st)
      [] OTHER -> Unsaved(st)

\* build_reply after load_db and users.setdefault: st is the user's loaded record.
\* body is the raw message, media the attached URLs, ai whether the Q&A collaborator answers.
\* The result is the record as the handler leaves it and whether save_db was called.
build_reply(st, body, media, ai) ==
    LET text     == Lower(Strip(body))
        step     == Get(st, "step", 0)
        data     == Get(st, "data", EmptyDict)
        schedule == Get(st, "schedule", [last |-> EmptyDict])
    IN
    IF text \in {TEST_SECRET, TEST_SECRET_OFF, TEST_SECRET_STATUS} THEN Unsaved(st)
    ELSE IF text \in STATUS_WORDS THEN Unsaved(st)
    ELSE IF text \in RESET_WORDS THEN Reset(st)
    ELSE IF 0 < step /\ step < 999 /\ _maybe_route_to_ai(text, step) /\ ai THEN Unsaved(st)
    ELSE IF step = 0
         THEN IF text \notin START_WORDS THEN Unsaved(st)
              ELSE Welcome(st)
    ELSE IF text \in START_WORDS /\ 0 < step /\ step < 999 THEN Greeted(st)
    ELSE StepReply(st, step, text, body, media, data, schedule)

\* --------------------------------------------------------- schedule planner
RECURSIVE SortedSeq(_)
\* sorted(S) of a set of integers
SortedSeq(S) ==
    IF S = {} THEN <<>>
    ELSE LET m == CHOOSE x \in S : \A y \in S : x <= y
         IN <<m>> \o SortedSeq(S \ {m})

SeqSet(q) == {q[i] : i \in 1..Len(q)}

\* dedup keeping the first occurrence
RECURSIVE Dedup(_, _)
Dedup(q, seen) ==
    IF q = <<>> THEN <<>>
    ELSE IF Head(q) \in seen THEN Dedup(Tail(q), seen)
    ELSE <<Head(q)>> \o Dedup(Tail(q), seen \cup {Head(q)})

\* one meal per hour from the start of the window (not what the code does)
_distribute_hourly(A0, B0, count0) ==
    IF _clamp_hour(A0) > _clamp_hour(B0) THEN <<>>
    ELSE SortedSeq({h \in _clamp_hour(A0).._clamp_hour(B0) : h < _clamp_hour(A0) + Max2(1, count0)})

_distribute_meal_hours(A0, B0, count0) ==
    LET A == _clamp_hour(A0)
        B == _clamp_hour(B0)
        count == Max2(1, count0)
        span == B - A
        hours == [i \in 1..count |->
                    _clamp_hour(RoundHalfEven(A * (count - 1) + span * (i - 1), count - 1))]
    IN IF A > B THEN <<>>
       ELSE IF count = 1 THEN <<A>>
       ELSE SortedSeq(SeqSet(Dedup(hours, {})))

\* the planned meals left where they are (not what the code does)
_keep_meals(meals, A, B, T) == SortedSeq(SeqSet(meals))

_force_post_workout(meals, A, B, T) ==
    IF T = NoneT THEN SortedSeq(SeqSet(meals))
    ELSE IF ~_in_window(T, A, B) THEN SortedSeq(SeqSet(meals))
    ELSE LET target == Min2(B, T + 1)
         IN IF target \in SeqSet(meals) THEN SortedSeq(SeqSet(meals))
            ELSE IF meals = <<>> THEN <<target>>
            ELSE LET idx == CHOOSE i \in 1..Len(meals) :
                               /\ \A j \in 1..Len(meals) : Abs(meals[i] - target) <= Abs(meals[j] - target)
                               /\ \A j \in 1..(i - 1) : Abs(meals[j] - target) > Abs(meals[i] - target)
                 IN SortedSeq(SeqSet([meals EXCEPT ![idx] = target]))

\* the quarters of the window whatever the meals are (not what the code does)
_water_quarters(meals, A, B, avoid, need) ==
    IF A > B THEN <<>>
    ELSE SortedSeq({RoundHalfEven(4 * A + k * (B - A), 4) : k \in 1..3})

_water_slots(meals, A, B, avoid, need) ==
    LET m == SortedSeq(SeqSet(meals))
        mids == IF Len(m) >= 2
                THEN SelectSeq([i \in 1..(Len(m) - 1) |-> RoundHalfEven(m[i] + m[i + 1], 2)],
                               LAMBDA h : _in_window(h, A, B))
                ELSE <<>>
        slots == <<RoundHalfEven(4 * A + (B - A), 4), RoundHalfEven(4 * A + 2 * (B - A), 4),
                   RoundHalfEven(4 * A + 3 * (B - A), 4)>>
        RECURSIVE Fill(_, _)
        Fill(cand, rest) ==
            IF rest = <<>> \/ Len(cand) >= need THEN cand
            ELSE Fill(IF _in_window(Head(rest), A, B) THEN Append(cand, Head(rest)) ELSE cand, Tail(rest))
        cand == IF Len(mids) < need /\ A <= B THEN Fill(mids, slots) ELSE mids
        out == SortedSeq(SeqSet(Dedup(cand, avoid)))
    IN SubSeq(out, 1, Min2(need, Len(out)))

\* ---------------------------------------------------------------- dispatcher
WEEKDAY_CHECKIN == 0

\* now.strftime("%Y-%m-%d")
DateStr(day) == "D" \o ToString(day)

\* now.weekday(): day 0 is a Monday
Weekday(day) == day % 7

\* the marker _should_send writes: date@hour
TodayKey(day, h) == DateStr(day) \o "@" \o ToString(h)

SlotKey(tag, h) == tag \o "_" \o ToString(h)

\* a _should_send that would let the slot go without writing its marker (not what the code does)
_should_send_unmarked(last, key, day, h) ==
    IF Get(last, key, "") = TodayKey(day, h)
    THEN <<FALSE, last>>
    ELSE <<TRUE, last>>

\* _should_send: <<send?, last after the call>>
_should_send(last, key, day, h) ==
    IF Get(last, key, "") = TodayKey(day, h)
    THEN <<FALSE, last>>
    ELSE <<TRUE, Put(last, key, TodayKey(day, h))>>

\* One "if h == hour and _should_send(...)" of the three loops: acc = [last, out]
Fire(acc, to_num, tag, h, day, hour) ==
    IF h = hour /\ _should_send(acc.last, SlotKey(tag, h), day, h)[1]
    THEN [last |-> _should_send(acc.last, SlotKey(tag, h), day, h)[2],
          out  |-> Append(acc.out, [to |-> to_num, slot |-> SlotKey(tag, h)])]
    ELSE acc

RECURSIVE FireAll(_, _, _, _, _)
\* cands: the <<tag, h>> pairs in the order the loops visit them
FireAll(acc, to_num, cands, day, hour) ==
    IF cands = <<>> THEN acc
    ELSE FireAll(Fire(acc, to_num, Head(cands)[1], Head(cands)[2], day, hour), to_num, Tail(cands), day, hour)

\* a check-in that would go out on every day of the week (not what the code does)
CheckInDaily(acc, to_num, day, hour) ==
    IF hour >= 8 /\ Get(acc.last, "checkin", "") # DateStr(day)
    THEN [last |-> Put(acc.last, "checkin", DateStr(day)),
          out  |-> Append(acc.out, [to |-> to_num, slot |-> "checkin"])]
    ELSE acc

\* the weekly check-in block
CheckIn(acc, to_num, day, hour) ==
    IF Weekday(day) = WEEKDAY_CHECKIN /\ hour >= 8 /\ Get(acc.last, "checkin", "") # DateStr(day)
    THEN [last |-> Put(acc.last, "checkin", DateStr(day)),
          out  |-> Append(acc.out, [to |-> to_num, slot |-> "checkin"])]
    ELSE acc

\* sched.get("enabled", True)
EnabledOf(sched) == Get(sched, "enabled", TRUE)

\* the mute window read from the profile: <<>> is "no mute window"
MuteOf(data) == LET mute == Get(data, "mute_hours", <<22, 5>>)
                IN IF mute = <<>> THEN <<>> ELSE <<_clamp_hour(mute[1]), _clamp_hour(mute[2])>>

not_muted(mute_tuple, h) == IF mute_tuple = <<>> THEN TRUE ELSE ~_in_mute(h, mute_tuple[1], mute_tuple[2])

\* the slots of the day after the mute filter, in the order the loops visit them
PlannedSlots(data) ==
    LET fw == Get(data, "feeding_window", <<8, 20>>)
        A == fw[1]
        B == fw[2]
        meal_count == Get(data, "meal_count", 4)
        T0 == Get(data, "training_hour", NoneT)
        T == IF T0 = NoneT THEN NoneT ELSE _clamp_hour(T0)
        mute == MuteOf(data)
        meals == SelectSeq(_force_post_workout(_distribute_meal_hours(A, B, meal_count), A, B, T),
                           LAMBDA h : not_muted(mute, h))
        water == SelectSeq(_water_slots(meals, A, B, SeqSet(meals), 3), LAMBDA h : not_muted(mute, h))
        pre  == IF T # NoneT /\ not_muted(mute, _clamp_hour(T - 1))
                THEN << <<"pretreino", _clamp_hour(T - 1)>> >> ELSE <<>>
        post == IF T # NoneT /\ not_muted(mute, _clamp_hour(T + 1))
                THEN << <<"pos_treino", _clamp_hour(T + 1)>> >> ELSE <<>>
    IN [i \in 1..Len(meals) |-> <<"meal", meals[i]>>] \o
       [i \in 1..Len(water) |-> <<"agua", water[i]>>] \o pre \o post

\* a dispatcher that would also switch the reminders on (not what the code does)
MarkingAndEnabling(u, sched, acc) ==
    [u |-> Put(u, "schedule", Put(Put(sched, "enabled", TRUE), "last", acc.last)), out |-> acc.out]

\* u.setdefault("schedule", {})["last"] = last; return out
Marking(u, sched, acc) == [u |-> Put(u, "schedule", Put(sched, "last", acc.last)), out |-> acc.out]

\* _cron_payload_for(uid, u): [u: the record as the call leaves it, out: the (to, body) list]
_cron_payload_for(u, day, hour) ==
    LET to_num == Get(u, "last_from", "")
        sched  == Get(u, "schedule", EmptyDict)
        last   == Get(sched, "last", EmptyDict)
        data   == Get(u, "data", EmptyDict)
    IN IF to_num = "" THEN [u |-> u, out |-> <<>>]
       ELSE IF ~EnabledOf(sched) THEN [u |-> u, out |-> <<>>]
       ELSE Marking(u, sched, CheckIn(FireAll([last |-> last, out |-> <<>>], to_num, PlannedSlots(data), day, hour),
                                      to_num, day, hour))

\* ------------------------------------------------------------------ _run_cron_now
\* a loop with the try/except around it would end at the first exception (not what the code does)
StopsAfter(raised) == ~raised

\* The for loop has its try/except inside: after an exception in one user's
\* iteration the error is logged and the loop goes on with the next user.
ContinuesAfter(raised) == TRUE

\* fault is what goes wrong for a user in a tick:
\*   "ok"       nothing;
\*   "sendfail" _send_whatsapp returns False for the user's messages (no client, or
\*              messages.create raises and is caught inside _send_whatsapp);
\*   "raise"    _cron_payload_for raises while it reads the record, before it writes a marker.
\* The inner loop "for to, body in payloads": every message is handed to
\* _send_whatsapp, whose result is dropped, and counted.
Deliver(uid, fault, r) ==
    [u |-> r.u,
     sent |-> {[uid |-> uid, to |-> r.out[i].to, slot |-> r.out[i].slot, ok |-> (fault = "ok")] :
                 i \in 1..Len(r.out)},
     count |-> Len(r.out), raised |-> FALSE]

\* One iteration of the outer loop: the record after it, the messages handed to
\* _send_whatsapp, what total_msgs grows by, and whether the except branch ran.
CronUser(uid, u, fault, day, hour) ==
    IF fault = "raise"
    THEN [u |-> u, sent |-> {}, count |-> 0, raised |-> TRUE]
    ELSE Deliver(uid, fault, _cron_payload_for(u, day, hour))

\* the loop state after the iteration for uid with result r
After(acc, uid, r) ==
    [users |-> [acc.users EXCEPT ![uid] = r.u],
     sent |-> acc.sent \cup r.sent,
     total_msgs |-> acc.total_msgs + r.count]

RECURSIVE CronLoop(_, _, _, _, _)
RECURSIVE CronRest(_, _, _, _, _, _)
\* for uid, u in users.items(): acc = [users, sent, total_msgs]
CronLoop(order, acc, fault, day, hour) ==
    IF order = <<>> THEN acc
    ELSE CronRest(order, acc, fault, day, hour,
                  CronUser(Head(order), acc.users[Head(order)], fault[Head(order)], day, hour))

\* the loop from the end of the first iteration on, r being that iteration's result
CronRest(order, acc, fault, day, hour, r) ==
    IF ContinuesAfter(r.raised)
    THEN CronLoop(Tail(order), After(acc, Head(order), r), fault, day, hour)
    ELSE After(acc, Head(order), r)

\* _run_cron_now on the loaded document: what is saved, what was sent, what is returned
_run_cron_now(users, order, fault, day, hour) ==
    CronLoop(order, [users |-> users, sent |-> {}, total_msgs |-> 0], fault, day, hour)

\* ---------------------------------------------------------------------- state
VARIABLES
    db,              \* the persisted document's "users" mapping: uid -> record
    uids,            \* the order of the keys of db (dict insertion order)
    now,             \* the wall clock read by _now_br: [day, hour]
    cron,            \* per thread: idle, or where it is and the document it has loaded and not yet saved
    last_op,         \* history: the handler run, tick or call that has just finished (NoOp when not recorded)
    adv,             \* history: how many times the clock has moved
    handled,         \* history: how many inbound messages the conversation model has handled
    sentRun,         \* history: per user, the slots emitted since the user's last message, this hour
    dupRun,          \* history: ... of which emitted more than once
    sentSinceReset,  \* history: per user, the slots emitted today since the user's last reset command
    dupSinceReset,   \* history: ... of which emitted more than once
    sentToday,       \* history: per user, the slots emitted on the current date
    dupToday,        \* history: ... of which emitted more than once
    paused,          \* history: the user sent pausar in the terminal state and has not since
                     \*          sent ativar or completed the questionnaire
    wrote,           \* history: per user, the record as the user's last handler run saved it
    TEST_MODE,       \* the process global TEST_MODE: the schedulers run the test executor
    TEST_TARGETS     \* the process global TEST_TARGETS: the numbers the test executor writes to

vars == <<db, uids, now, cron, last_op, adv, handled, sentRun, dupRun, sentSinceReset, dupSinceReset,
          sentToday, dupToday, paused, wrote, TEST_MODE, TEST_TARGETS>>

emitted == <<sentRun, dupRun, sentSinceReset, dupSinceReset, sentToday, dupToday>>

test == <<TEST_MODE, TEST_TARGETS>>

Users == {"5571", "5572"}

\* the threads that run _run_cron_now: _start_internal_scheduler's loop and the /admin/cron handler
Crons == {"scheduler", "admin"}

\* the threads that load and save the document: the dispatchers and the POST /bot handler
Threads == Crons \cup {"bot"}

\* no handler run of the user has saved yet
Unwritten == EmptyDict

\* the From field Twilio sends for a user; _uid_from keeps its digits
Sender(u) == "whatsapp:+" \o u

NoOp == [kind |-> "none"]

Idle == [pc |-> "idle"]

Faults == {"ok", "sendfail", "raise"}

NoSlots == [u \in Users |-> {}]

\* ---- bounds of the model
MaxAdvance == 1

MaxFaultsPerTick == 1

MaxHandled == 2

StartHours == {7, 8, 22}

\* --------------------------------------------------------------------- actions
\* bot(): users.setdefault(uid, {...}); _remember_last_from(users, uid, sender); save_db(db)
Remember(users, uid, sender) == Put(users, uid, Put(Get(users, uid, NewUser), "last_from", sender))

\* build_reply's test commands: #ativar3m switches the test mode on and adds the sender's
\* number (_normalize_e164: the From field without "whatsapp:") to the targets,
\* #desativar3m switches it off and clears the targets
TestCommand(text, u) ==
    CASE text = TEST_SECRET -> [mode |-> TRUE, targets |-> TEST_TARGETS \cup {"+" \o u}]
      [] text = TEST_SECRET_OFF -> [mode |-> FALSE, targets |-> {}]
      [] OTHER -> [mode |-> TEST_MODE, targets |-> TEST_TARGETS]

\* POST /bot handled from its first load_db to its last save_db, with no other handler
\* or tick in between: the destination is remembered, then build_reply runs.
bot(u, body, media, ai) ==
    LET users1 == Remember(db, u, Sender(u))
        r      == build_reply(users1[u], body, media, ai)
        text   == Lower(Strip(body))
        step   == Get(users1[u], "step", 0)
    IN /\ db' = IF r.saved THEN Put(users1, u, r.st) ELSE users1
       /\ uids' = IF u \in DOMAIN db THEN uids ELSE Append(uids, u)
       /\ sentRun' = [sentRun EXCEPT ![u] = {}]
       /\ dupRun' = [dupRun EXCEPT ![u] = {}]
       /\ sentSinceReset' = IF text \in RESET_WORDS THEN [sentSinceReset EXCEPT ![u] = {}] ELSE sentSinceReset
       /\ dupSinceReset' = IF text \in RESET_WORDS THEN [dupSinceReset EXCEPT ![u] = {}] ELSE dupSinceReset
       /\ paused' = IF step >= 999 /\ text = PAUSAR THEN [paused EXCEPT ![u] = TRUE]
                    ELSE IF (step >= 999 /\ text = ATIVAR) \/ (step = 12 /\ r.st["step"] = 999)
                         THEN [paused EXCEPT ![u] = FALSE]
                    ELSE paused
       /\ wrote' = [wrote EXCEPT ![u] = IF r.saved THEN r.st ELSE users1[u]]
       /\ TEST_MODE' = TestCommand(text, u).mode
       /\ TEST_TARGETS' = TestCommand(text, u).targets
       /\ UNCHANGED <<now, cron, adv, sentToday, dupToday>>

\* an inbound message in the dispatcher models
Inbound(u, body) ==
    /\ bot(u, body, <<>>, FALSE)
    /\ last_op' = NoOp
    /\ UNCHANGED handled

\* an inbound message in the conversation model: what was asked is kept for the record
Answer(u, body, media, ai) ==
    /\ handled < MaxHandled
    /\ handled' = handled + 1
    /\ bot(u, body, media, ai)
    /\ last_op' = [kind |-> "bot", uid |-> u, before |-> Get(db, u, NewUser),
                   body |-> body, media |-> media, ai |-> ai]

SlotsTo(sent, u) == {m.slot : m \in {x \in sent : x.uid = u}}

\* what a run of _run_cron_now leaves behind: loaded is the document it read, r its result
Finish(loaded, fault, r) ==
    /\ db' = r.users
    /\ last_op' = [kind |-> "cron", day |-> now.day, hour |-> now.hour, before |-> loaded,
                   fault |-> fault, sent |-> r.sent, ret |-> r.total_msgs]
    /\ sentRun' = [u \in Users |-> sentRun[u] \cup SlotsTo(r.sent, u)]
    /\ dupRun' = [u \in Users |-> dupRun[u] \cup (sentRun[u] \cap SlotsTo(r.sent, u))]
    /\ sentSinceReset' = [u \in Users |-> sentSinceReset[u] \cup SlotsTo(r.sent, u)]
    /\ dupSinceReset' = [u \in Users |-> dupSinceReset[u] \cup (sentSinceReset[u] \cap SlotsTo(r.sent, u))]
    /\ sentToday' = [u \in Users |-> sentToday[u] \cup SlotsTo(r.sent, u)]
    /\ dupToday' = [u \in Users |-> dupToday[u] \cup (sentToday[u] \cap SlotsTo(r.sent, u))]
    /\ UNCHANGED <<uids, now, adv, handled, paused, wrote>>
    /\ UNCHANGED test

\* One run of _run_cron_now from load_db to save_db, with no handler in between.
Tick(fault) ==
    /\ Finish(db, fault, _run_cron_now(db, uids, fault, now.day, now.hour))
    /\ UNCHANGED cron

AllOk == [u \in Users |-> "ok"]

\* One run of _run_cron_test_now: nothing is loaded or saved and no slot is looked at;
\* if the test interval has elapsed every target is sent the test notice. elapsed is
\* whether TEST_INTERVAL_MIN minutes have passed since the last notice, ok what
\* _send_whatsapp returns.
_run_cron_test_now(elapsed, ok) ==
    /\ last_op' = [kind |-> "test", day |-> now.day, hour |-> now.hour, before |-> db,
                   sent |-> IF elapsed
                            THEN {[uid |-> t, to |-> "whatsapp:" \o t, slot |-> "teste", ok |-> ok] : t \in TEST_TARGETS}
                            ELSE {},
                   ret |-> IF elapsed /\ ok THEN Cardinality(TEST_TARGETS) ELSE 0]
    /\ UNCHANGED <<db, uids, now, cron, adv, handled, paused, wrote>>
    /\ UNCHANGED emitted
    /\ UNCHANGED test

\* the scheduler's _tick (and GET /admin/cron without test=1): the test executor while
\* TEST_MODE is on, _run_cron_now otherwise
_tick(fault) ==
    IF TEST_MODE THEN \E elapsed \in BOOLEAN, ok \in BOOLEAN : _run_cron_test_now(elapsed, ok)
    ELSE Tick(fault)

\* _run_cron_now in thread p, first half: db = load_db() (the lock is released on return)
CronLoad(p) ==
    /\ cron[p] = Idle
    /\ cron' = [cron EXCEPT ![p] = [pc |-> "loaded", users |-> db]]
    /\ last_op' = NoOp
    /\ UNCHANGED <<db, uids, now, adv, handled, paused, wrote>>
    /\ UNCHANGED test
    /\ UNCHANGED emitted

\* _run_cron_now in thread p, second half: the loop over the loaded document and save_db(db)
CronFinish(p) ==
    /\ cron[p] # Idle
    /\ Finish(cron[p].users, AllOk, _run_cron_now(cron[p].users, uids, AllOk, now.day, now.hour))
    /\ cron' = [cron EXCEPT ![p] = Idle]

\* the clock reaches the next hour
NextHour ==
    /\ adv < MaxAdvance
    /\ adv' = adv + 1
    /\ now' = IF now.hour = 23 THEN [day |-> now.day + 1, hour |-> 0] ELSE [now EXCEPT !.hour = @ + 1]
    /\ last_op' = NoOp
    /\ sentRun' = NoSlots /\ dupRun' = NoSlots
    /\ IF now.hour = 23
       THEN sentSinceReset' = NoSlots /\ dupSinceReset' = NoSlots /\ sentToday' = NoSlots /\ dupToday' = NoSlots
       ELSE UNCHANGED <<sentSinceReset, dupSinceReset, sentToday, dupToday>>
    /\ UNCHANGED <<db, uids, cron, handled, paused, wrote>>
    /\ UNCHANGED test

\* the clock reaches the same hour of the next day with nothing handled in between
NextDay ==
    /\ adv < MaxAdvance
    /\ adv' = adv + 1
    /\ now' = [now EXCEPT !.day = @ + 1]
    /\ last_op' = NoOp
    /\ sentRun' = NoSlots /\ dupRun' = NoSlots
    /\ sentSinceReset' = NoSlots /\ dupSinceReset' = NoSlots /\ sentToday' = NoSlots /\ dupToday' = NoSlots
    /\ UNCHANGED <<db, uids, cron, handled, paused, wrote>>
    /\ UNCHANGED test

\* ---- what the users of the models send
M_oi == <<"o", "i">>

M_name == <<"a", "n", "a">>

M_reiniciar == <<"r", "e", "i", "n", "i", "c", "i", "a", "r">>

\* The questionnaire answered up to the confirmation question (step 11) in two ways:
\* training 12h, feeding window 08-20, mute 22-05; no training, feeding window 06-22, no mute.
ScriptA ==
    <<M_oi, M_name, <<"1">>, <<"3">>, <<"3", "0">>, <<"3">>, <<"3">>, <<"2">>, <<"1">>, <<"1">>, <<"2">>,
      <<"2">>, <<"1">>, <<"1">> >>

ScriptB ==
    <<M_oi, M_name, <<"2">>, <<"2">>, <<"x">>, <<"2">>, <<"2">>, <<"3">>, <<"3">>, <<"5">>, <<"n", "o", "z", "e", "s">>,
      <<"2">>, <<"7">>, <<"3">>, <<"4">> >>

RECURSIVE Replay(_, _, _)
\* the document after POST /bot has handled msgs from sender u, one after the other
Replay(users, u, msgs) ==
    IF msgs = <<>> THEN users
    ELSE LET users1 == Remember(users, u, Sender(u))
             r == build_reply(users1[u], Head(msgs), <<>>, FALSE)
         IN IF r.saved THEN Replay(Put(users1, u, r.st), u, Tail(msgs))
            ELSE Replay(users1, u, Tail(msgs))

Quiet ==
    /\ cron = [p \in Threads |-> Idle]
    /\ last_op = NoOp
    /\ adv = 0
    /\ handled = 0
    /\ sentRun = NoSlots /\ dupRun = NoSlots
    /\ sentSinceReset = NoSlots /\ dupSinceReset = NoSlots
    /\ sentToday = NoSlots /\ dupToday = NoSlots
    /\ paused = [u \in Users |-> FALSE]
    /\ wrote = [u \in Users |-> Unwritten]
    /\ TEST_MODE = FALSE
    /\ TEST_TARGETS = {}

\* The dispatcher models start on a Monday with the first user at the confirmation
\* question and the second user enrolled (questionnaire completed with 5 meals).
Init ==
    /\ db = Replay(Replay(EmptyDict, "5571", ScriptA), "5572", ScriptB \o << <<"1">>, <<"3">> >>)
    /\ uids = <<"5571", "5572">>
    /\ now \in [day : {0}, hour : StartHours]
    /\ Quiet

\* the users who write while the dispatcher models run
Writers == {"5571"}

\* the answers a writer gives to the question of each step: yes to the confirmation,
\* 4 meals, and pausar or ativar once enrolled
Replies(step) ==
    CASE step = 11 -> {<<"1">>}
      [] step = 12 -> {<<"2">>}
      [] step = 999 -> {PAUSAR, ATIVAR}
      [] OTHER -> {}

StepOf(u) == IF u \in DOMAIN db THEN Get(db[u], "step", 0) ELSE 0

\* what can go wrong in one tick: at most MaxFaultsPerTick users are hit
FaultMaps == {f \in [Users -> Faults] : Cardinality({u \in Users : f[u] # "ok"}) <= MaxFaultsPerTick}

Next ==
    \/ \E u \in Writers : \E body \in Replies(StepOf(u)) \cup {M_reiniciar} : Inbound(u, body)
    \/ \E fault \in FaultMaps : Tick(fault)
    \/ NextHour
    \/ NextDay

Spec == Init /\ [][Next]_vars

\* The two dispatcher threads, each split where storage.py releases its lock: between
\* load_db and save_db the other thread and the clock may run.
NextConc ==
    \/ \E u \in Writers : \E body \in Replies(StepOf(u)) : Inbound(u, body)
    \/ \E p \in Crons : CronLoad(p)
    \/ \E p \in Crons : CronFinish(p)
    \/ NextHour

SpecConc == Init /\ [][NextConc]_vars

\* ---- POST /bot split where storage.py releases its lock: bot() loads and saves once to
\* remember the destination, then build_reply loads and saves once more.
\* bot(), first half of the first cycle: db = load_db()
BotLoad1(u, body) ==
    /\ cron["bot"] = Idle
    /\ cron' = [cron EXCEPT !["bot"] = [pc |-> "remember", uid |-> u, body |-> body, users |-> db]]
    /\ last_op' = NoOp
    /\ UNCHANGED <<db, uids, now, adv, handled, paused, wrote>>
    /\ UNCHANGED test
    /\ UNCHANGED emitted

\* bot(), second half of the first cycle: setdefault, _remember_last_from, save_db(db)
BotSave1 ==
    /\ cron["bot"].pc = "remember"
    /\ LET c      == cron["bot"]
           users1 == Remember(c.users, c.uid, Sender(c.uid))
       IN /\ db' = users1
          /\ uids' = IF c.uid \in SeqSet(uids) THEN uids ELSE Append(uids, c.uid)
          /\ wrote' = [wrote EXCEPT ![c.uid] = users1[c.uid]]
          /\ cron' = [cron EXCEPT !["bot"] = [pc |-> "received", uid |-> c.uid, body |-> c.body]]
    /\ last_op' = NoOp
    /\ UNCHANGED <<now, adv, handled, paused>>
    /\ UNCHANGED test
    /\ UNCHANGED emitted

\* build_reply, first half: db = load_db()
BotLoad2 ==
    /\ cron["bot"].pc = "received"
    /\ cron' = [cron EXCEPT !["bot"] = [pc |-> "replying", uid |-> @.uid, body |-> @.body, users |-> db]]
    /\ last_op' = NoOp
    /\ UNCHANGED <<db, uids, now, adv, handled, paused, wrote>>
    /\ UNCHANGED test
    /\ UNCHANGED emitted

\* build_reply, second half: setdefault, the step's branch, and save_db(db) where it saves
BotSave2 ==
    /\ cron["bot"].pc = "replying"
    /\ LET c    == cron["bot"]
           st   == Get(c.users, c.uid, NewUser)
           r    == build_reply(st, c.body, <<>>, FALSE)
           text == Lower(Strip(c.body))
           step == Get(st, "step", 0)
       IN /\ db' = IF r.saved THEN Put(c.users, c.uid, r.st) ELSE db
          /\ wrote' = IF r.saved THEN [wrote EXCEPT ![c.uid] = r.st] ELSE wrote
          /\ TEST_MODE' = TestCommand(text, c.uid).mode
          /\ TEST_TARGETS' = TestCommand(text, c.uid).targets
          /\ sentRun' = [sentRun EXCEPT ![c.uid] = {}]
          /\ dupRun' = [dupRun EXCEPT ![c.uid] = {}]
          /\ paused' = IF step >= 999 /\ text = PAUSAR THEN [paused EXCEPT ![c.uid] = TRUE]
                       ELSE IF (step >= 999 /\ text = ATIVAR) \/ (step = 12 /\ r.st["step"] = 999)
                            THEN [paused EXCEPT ![c.uid] = FALSE]
                       ELSE paused
          /\ last_op' = [kind |-> "bot", uid |-> c.uid, before |-> st, body |-> c.body,
                         media |-> <<>>, ai |-> FALSE]
    /\ cron' = [cron EXCEPT !["bot"] = Idle]
    /\ UNCHANGED <<uids, now, adv, handled, sentSinceReset, dupSinceReset, sentToday, dupToday>>

\* One handler and the scheduler's thread, each load-mutate-save cycle split between its
\* load_db and its save_db.
NextRace ==
    \/ \E u \in Writers : \E body \in Replies(StepOf(u)) : BotLoad1(u, body)
    \/ BotSave1
    \/ BotLoad2
    \/ BotSave2
    \/ CronLoad("scheduler")
    \/ CronFinish("scheduler")

SpecRace == Init /\ [][NextRace]_vars

\* ---- the test mode: the first user writes, test commands included, while the scheduler
\* ticks for both users
NextTest ==
    \/ \E u \in Writers : \E body \in Replies(StepOf(u)) \cup {TEST_SECRET, TEST_SECRET_OFF} : Inbound(u, body)
    \/ _tick(AllOk)
    \/ NextHour

SpecTest == Init /\ [][NextTest]_vars

\* ---- the conversation model: one user, one message after the other
\* what the user may type
Pool ==
    {<<DigitChars[i]>> : i \in DOMAIN DigitChars} \cup
    {<<" ", "2", " ">>, <<"x">>, <<"1", "?">>, <<"a", "j", "u", "d", "a">>, <<"3", "0">>,
     <<"0", "8", "-", "2", "0">>, <<"O", "i">>, M_name, M_reiniciar, PAUSAR, ATIVAR, PULAR,
     <<"p", "i", "n", "g">>, TEST_SECRET, <<>>} \cup
    {<<"2", "0", "-", "0", "8">>, <<"1", "0">>, <<"1", "1">>, <<"9", "9">>, <<"1", "0", "0">>,
     <<"t", "e", "n", "h", "o", " ", "4", "5">>} \cup
    {<<"R", "e", "s", "e", "t", " ">>, <<"r", "e", "c", "o", "m", "e", "c_cedilla", "a", "r">>,
     <<"r", "e", "c", "o", "m", "e", "c", "a", "r">>} \cup
    {M_oi, <<"o", "l", "a">>, <<"O", "l", "a_acute">>, <<"b", "o", "m", " ", "d", "i", "a">>,
     <<"b", "o", "a", " ", "t", "a", "r", "d", "e">>, <<" ", "B", "o", "a", " ", "n", "o", "i", "t", "e">>}

\* the messages that build_reply hands to the Q&A collaborator in mid-questionnaire
Questions == {b \in Pool : _maybe_route_to_ai(Lower(Strip(b)), 1)}

\* an inbound event: its text, its attached media, and whether the Q&A collaborator
\* answers (it is asked in mid-questionnaire only about the Questions)
Events ==
    {[body |-> b, media |-> <<>>, ai |-> FALSE] : b \in Pool} \cup
    {[body |-> b, media |-> <<>>, ai |-> TRUE] : b \in Questions} \cup
    {[body |-> b, media |-> <<"https://img/1">>, ai |-> FALSE] : b \in {<<>>, <<"1">>}} \cup
    {[body |-> <<>>, media |-> <<"https://img/1", "https://img/2", "https://img/3", "https://img/4">>,
      ai |-> FALSE]}

\* the questionnaire answered in full
FullScripts == {ScriptA \o << <<"1">>, <<"2">> >>, ScriptB \o << <<"1">>, <<"3">> >>}

\* The conversation model starts anywhere along the two scripts.
InitFlow ==
    /\ \E s \in FullScripts : \E k \in 0..Len(s) : db = Replay(EmptyDict, "5571", SubSeq(s, 1, k))
    /\ uids = IF db = EmptyDict THEN <<>> ELSE <<"5571">>
    /\ now = [day |-> 0, hour |-> 8]
    /\ Quiet

\* the user's messages, and the dispatcher's ticks in between
NextFlow ==
    \/ \E e \in Events : Answer("5571", e.body, e.media, e.ai)
    \/ _tick(AllOk)

SpecFlow == InitFlow /\ [][NextFlow]_vars

\* ---- the calculator model: every profile the questionnaire can store, confirmed
\* the single-digit token of choice i, and an age typed in two digits
Tok(i) == <<DigitChars[i + 1]>>

AgeText(n) == <<DigitChars[(n \div 10) + 1], DigitChars[(n % 10) + 1]>>

\* the answers to the age questions: a bracket and an exact age the code accepts
\* (11..99), or any bracket and a text without digits, for which the bracket's estimate is kept
AgeAnswers ==
    {<<Tok(3), AgeText(n)>> : n \in 11..99} \cup {<<Tok(b), <<"x">> >> : b \in 1..6}

\* the questionnaire answered up to the confirmation question: restrictions none,
\* photos skipped, no training, feeding window 08-20, no mute window
AnswersFor(sexo, idade, altura, peso, atividade, objetivo) ==
    <<M_oi, M_name, Tok(sexo), idade[1], idade[2], Tok(altura), Tok(peso), Tok(atividade), Tok(objetivo),
      Tok(1), Tok(2), Tok(7), Tok(1), Tok(4)>>

InitCalc ==
    /\ \E sexo \in 1..2, idade \in AgeAnswers, altura \in 1..5, peso \in 1..6, atividade \in 1..4,
          objetivo \in 1..3 :
          db = Replay(EmptyDict, "5571", AnswersFor(sexo, idade, altura, peso, atividade, objetivo))
    /\ uids = <<"5571">>
    /\ now = [day |-> 0, hour |-> 8]
    /\ Quiet

\* the user confirms the summary
NextCalc == StepOf("5571") = 11 /\ Answer("5571", Tok(1), <<>>, FALSE)

SpecCalc == InitCalc /\ [][NextCalc]_vars

\* ---- the end-to-end model: one new user walks through the questionnaire
\* what the user answers at each step: a man, age bracket 3 and an exact age without
\* digits, height 3, weight 3, activity 2, objective 1, restriction 1, photos skipped,
\* any training hour (a choice 1..7 or a typed hour), any feeding window and any mute
\* window (a choice or a typed range), confirmation, 4 meals
PathReplies(step) ==
    CASE step = 0 -> {M_oi}
      [] step = 1 -> {M_name}
      [] step = 2 -> {Tok(1)}
      [] step = 3 -> {Tok(3)}
      [] step = 4 -> {<<"x">>, <<"n", "a", "o", " ", "s", "e", "i">>}
      [] step = 5 -> {Tok(3)}
      [] step = 6 -> {Tok(3)}
      [] step = 7 -> {Tok(2)}
      [] step = 8 -> {Tok(1)}
      [] step = 9 -> {Tok(1)}
      [] step = 10 -> {Tok(2)}
      [] step = 100 -> {Tok(i) : i \in 1..7} \cup {<<"0">>, <<"1", "5">>, <<" ", "2", "3">>}
      [] step = 101 -> {Tok(i) : i \in 1..4} \cup {<<"0", "8", "-", "2", "0">>, <<"9", " ", "endash", " ", "1", "7">>}
      [] step = 102 -> {Tok(i) : i \in 1..4} \cup {<<"2", "2", "-", "0", "5">>, <<"1", "emdash", "4">>}
      [] step = 11 -> {Tok(1)}
      [] step = 12 -> {Tok(2)}
      [] OTHER -> {}

\* an inbound message of the walk, counted and kept for the record
Said(u, body) ==
    /\ handled' = handled + 1
    /\ bot(u, body, <<>>, FALSE)
    /\ last_op' = [kind |-> "bot", uid |-> u, before |-> Get(db, u, NewUser),
                   body |-> body, media |-> <<>>, ai |-> FALSE]

\* no record yet
InitPath ==
    /\ db = EmptyDict
    /\ uids = <<>>
    /\ now = [day |-> 0, hour |-> 8]
    /\ Quiet

NextPath == \E body \in PathReplies(StepOf("5571")) : Said("5571", body)

SpecPath == InitPath /\ [][NextPath]_vars

\* ---- the training-hour model: a user at the training-hour question (step 100) chooses
\* option 8 and then types an hour
\* the hour h as a plain integer
PlainHour(h) == IF h < 10 THEN Tok(h) ELSE AgeText(h)

\* the questionnaire answered up to the training-hour question
InitTrain ==
    /\ \E sexo \in 1..2, objetivo \in 1..3 :
          db = Replay(EmptyDict, "5571", SubSeq(AnswersFor(sexo, <<Tok(3), AgeText(30)>>, 3, 3, 2, objetivo), 1, 11))
    /\ uids = <<"5571">>
    /\ now = [day |-> 0, hour |-> 8]
    /\ Quiet

\* option 8, then an hour typed plainly or in two digits
NextTrain ==
    \/ handled = 0 /\ Said("5571", Tok(8))
    \/ handled = 1 /\ \E h \in 0..23 : \E body \in {PlainHour(h), AgeText(h)} : Said("5571", body)

SpecTrain == InitTrain /\ [][NextTrain]_vars

\* ---- the planner model: one call of a planning function, on arguments of its domain
MaxTotal == 200

MaxMeals == 6

\* meals = sorted(not muted hours of the planned meals); water = _water_slots(meals, A, B, avoid=set(meals), need=3)
Hydration(meals, A, B) == [meals |-> meals, water |-> _water_slots(meals, A, B, SeqSet(meals), 3)]

\* what the call returns
Result(fn, a) ==
    CASE fn = "_split_by_meals" -> _split_by_meals(a.total, a.meals)
      [] fn = "_distribute_meal_hours" -> _distribute_meal_hours(a.A, a.B, a.count)
      [] fn = "_in_mute" -> _in_mute(a.hour, a.M, a.N)
      [] fn = "_force_post_workout" -> _force_post_workout(_distribute_meal_hours(a.A, a.B, a.count), a.A, a.B, a.T)
      [] fn = "_water_slots" ->
            Hydration(SelectSeq(_force_post_workout(_distribute_meal_hours(a.A, a.B, a.count), a.A, a.B, a.T),
                                LAMBDA h : not_muted(a.mute, h)), a.A, a.B)

\* a call about to be made
Call(fn, args) == last_op = [kind |-> "call", fn |-> fn, args |-> args, done |-> FALSE, ret |-> <<>>]

\* the calls made: _split_by_meals on a total to split; _distribute_meal_hours and _in_mute
\* on all hours; _force_post_workout on the distribution of a window, with every training
\* hour and none; _water_slots as _cron_payload_for calls it, on the meals of a window
\* once forced and filtered by the mute window (all windows, also those with A > B)
InitPlan ==
    /\ db = EmptyDict
    /\ uids = <<>>
    /\ now = [day |-> 0, hour |-> 0]
    /\ cron = [p \in Threads |-> Idle]
    /\ adv = 0
    /\ handled = 0
    /\ sentRun = NoSlots /\ dupRun = NoSlots
    /\ sentSinceReset = NoSlots /\ dupSinceReset = NoSlots
    /\ sentToday = NoSlots /\ dupToday = NoSlots
    /\ paused = [u \in Users |-> FALSE]
    /\ wrote = [u \in Users |-> Unwritten]
    /\ TEST_MODE = FALSE
    /\ TEST_TARGETS = {}
    /\ \/ \E total \in 1..MaxTotal, n \in 1..MaxMeals :
             Call("_split_by_meals", [total |-> total, meals |-> n])
       \/ \E A \in 0..23, B \in 0..23, n \in 1..MaxMeals :
             Call("_distribute_meal_hours", [A |-> A, B |-> B, count |-> n])
       \/ \E h \in 0..23, M \in 0..23, N \in 0..23 :
             Call("_in_mute", [hour |-> h, M |-> M, N |-> N])
       \/ \E A \in 0..23, B \in 0..23, n \in 1..MaxMeals, T \in {NoneT} \cup (0..23) :
             A <= B /\ Call("_force_post_workout", [A |-> A, B |-> B, count |-> n, T |-> T])
       \/ \E A \in 0..23, B \in 0..23, n \in 1..MaxMeals, T \in {NoneT, 7, 12, 20}, mute \in {<<>>, <<22, 5>>, <<12, 14>>} :
             Call("_water_slots", [A |-> A, B |-> B, count |-> n, T |-> T, mute |-> mute])

\* the call is made and returns
Apply ==
    /\ last_op.kind = "call"
    /\ ~last_op.done
    /\ last_op' = [last_op EXCEPT !.done = TRUE, !.ret = Result(last_op.fn, last_op.args)]
    /\ UNCHANGED <<db, uids, now, cron, adv, handled, paused, wrote>>
    /\ UNCHANGED test
    /\ UNCHANGED emitted

SpecPlan == InitPlan /\ [][Apply]_vars

\* ------------------------------------------------------- what the records say
ScheduleOf(u) == Get(u, "schedule", EmptyDict)

DataOf(u) == Get(u, "data", EmptyDict)

\* the marker a slot gets on day at hour
MarkerFor(slot, day, hour) == IF slot = "checkin" THEN DateStr(day) ELSE TodayKey(day, hour)

Marked(u, slot, day, hour) == Get(Get(ScheduleOf(u), "last", EmptyDict), slot, "") = MarkerFor(slot, day, hour)

\* the slots of record u that fall on day at hour
SlotsAt(u, day, hour) ==
    {SlotKey(c[1], c[2]) : c \in {x \in SeqSet(PlannedSlots(DataOf(u))) : x[2] = hour}}
    \cup (IF Weekday(day) = WEEKDAY_CHECKIN /\ hour >= 8 THEN {"checkin"} ELSE {})

\* the due and unmarked slots of record u, if the dispatcher serves u at all
Due(u, day, hour) ==
    IF Get(u, "last_from", "") = "" \/ ~EnabledOf(ScheduleOf(u)) THEN {}
    ELSE {s \in SlotsAt(u, day, hour) : ~Marked(u, s, day, hour)}

\* what section 4.4 asks of a user the dispatcher serves: a destination and enabled = true
Enrolled(u) ==
    /\ Get(u, "last_from", "") # ""
    /\ Has(ScheduleOf(u), "enabled")
    /\ ScheduleOf(u)["enabled"] = TRUE

Ticked == last_op.kind = "cron"

\* --------------------------------------------------------------------- claims
\* C1: when the dispatcher runs several ticks one after another in the same date and
\* hour and the user sends nothing in between, each slot of the user is emitted by at
\* most one of those ticks.
C1_OncePerHourRun == \A u \in Users : dupRun[u] = {}

\* a tick has just found the marker of a slot emitted earlier this hour and sent nothing
C1_SecondTickSilent ==
    /\ Ticked
    /\ \E u \in Users :
          /\ last_op.fault[u] = "ok"
          /\ sentRun[u] # {}
          /\ sentRun[u] \subseteq SlotsAt(last_op.before[u], last_op.day, last_op.hour)
          /\ SlotsTo(last_op.sent, u) = {}

C3_OnceAcrossThreads ==
    Ticked => \A m \in last_op.sent : Enrolled(last_op.before[m.uid]) => m.slot \notin dupRun[m.uid]

\* C4 as stated: when the transport fails for a slot, the saved record carries no
\* marker of today for that slot (so that a later tick of the hour sends it again).
C4_FailedSendLeavesNoMarker ==
    Ticked => \A m \in last_op.sent :
        (~m.ok /\ Enrolled(last_op.before[m.uid])) => ~Marked(db[m.uid], m.slot, last_op.day, last_op.hour)

\* C5: when one user's turn in a tick fails, every other user is still served: each
\* due and unmarked slot of theirs is emitted and its marker is in the saved document.
C5_OthersStillServed ==
    Ticked =>
        \A f \in Users : last_op.fault[f] # "ok" =>
            \A u \in Users \ {f} : last_op.fault[u] = "ok" =>
                \A s \in Due(last_op.before[u], last_op.day, last_op.hour) :
                    /\ s \in SlotsTo(last_op.sent, u)
                    /\ Marked(db[u], s, last_op.day, last_op.hour)

\* the first user of the loop raised and the second one had a due slot, which was sent and marked
C5_ServedAfterFailure ==
    /\ Ticked
    /\ last_op.fault[uids[1]] = "raise"
    /\ last_op.fault[uids[2]] = "ok"
    /\ Due(last_op.before[uids[2]], last_op.day, last_op.hour) # {}
    /\ Due(last_op.before[uids[2]], last_op.day, last_op.hour) \subseteq SlotsTo(last_op.sent, uids[2])

\* C6 as stated: a tick emits to a user only if the record the tick loaded has
\* schedule.enabled = true and a stored destination.
C6_OnlyEnabledUsers == Ticked => \A m \in last_op.sent : Enrolled(last_op.before[m.uid])

\* C7 as stated: no tick emits to a user who sent pausar in the terminal state and has
\* not since sent ativar or completed the questionnaire again.
C7_PausedGetNothing == Ticked => \A m \in last_op.sent : ~paused[m.uid]

\* C8 as stated: a tick emits nothing, of any category, to an enrolled user whose
\* stored mute window contains the hour of the tick.
C8_NothingInsideMute ==
    Ticked => \A m \in last_op.sent :
        LET data == DataOf(last_op.before[m.uid])
        IN (Enrolled(last_op.before[m.uid]) /\ Has(data, "mute_hours") /\ data["mute_hours"] # <<>>) =>
               ~_in_mute(last_op.hour, MuteOf(data)[1], MuteOf(data)[2])

\* ---- the last inbound message
Asked == last_op.kind = "bot"

\* the step and the profile the message found, the normalised text, and what it left
StepBefore == Get(last_op.before, "step", 0)

DataBefore == DataOf(last_op.before)

TextAsked == Lower(Strip(last_op.body))

StepAfter == Get(db[last_op.uid], "step", 0)

DataAfter == DataOf(db[last_op.uid])

Tokens(n) == {<<DigitChars[i + 1]>> : i \in 1..n}

\* the closed multiple-choice steps and the tokens their questions offer
ClosedSteps == {2, 3, 5, 6, 7, 8, 9, 10, 11, 12}

Allowed(step) ==
    CASE step \in {2, 10, 11} -> Tokens(2)
      [] step = 8 -> Tokens(3)
      [] step \in {7, 12} -> Tokens(4)
      [] step \in {5, 9} -> Tokens(5)
      [] step \in {3, 6} -> Tokens(6)
      [] OTHER -> {}

\* C9: at a closed multiple-choice step an input that is neither one of the step's
\* tokens nor a reset command leaves the stored step and the stored profile as they
\* were, whether the Q&A collaborator answers or not.
C9_InvalidChangesNothing ==
    (Asked /\ StepBefore \in ClosedSteps /\ TextAsked \notin Allowed(StepBefore) /\ TextAsked \notin RESET_WORDS)
        => (StepAfter = StepBefore /\ DataAfter = DataBefore)

\* a question mark at a closed step, answered by the Q&A collaborator
C9_QuestionAnswered ==
    /\ Asked /\ StepBefore \in ClosedSteps /\ TextAsked \notin Allowed(StepBefore)
    /\ Contains(TextAsked, "?") /\ last_op.ai
    /\ StepAfter = StepBefore

\* the step that follows a valid token
Successor(step, text) ==
    CASE step \in {2, 3, 5, 6, 7, 8} -> step + 1
      [] step = 9 -> IF text = <<"5">> THEN 91 ELSE 10
      [] step = 10 -> IF text = <<"1">> THEN 92 ELSE 100
      [] step = 12 -> 999

\* the profile holds the table's entry for the token of the question of that step
Stored(step, text, data) ==
    CASE step = 2 -> data["sexo"] = (IF text = <<"1">> THEN "Masculino" ELSE "Feminino")
      [] step = 3 -> /\ data["idade_faixa"] = <<AGE_MAP[text][1], AGE_MAP[text][2]>>
                     /\ data["idade_estimada"] = AGE_MAP[text][3]
      [] step = 5 -> /\ data["altura_faixa"] = (IF text = <<"5">> THEN <<190>>
                                                ELSE <<HEIGHT_MAP[text][1], HEIGHT_MAP[text][2]>>)
                     /\ data["altura_cm_est"] = HEIGHT_MAP[text][3]
                     /\ (text = <<"3">> => data["altura_faixa"] = <<170, 179>> /\ data["altura_cm_est"] = 175)
      [] step = 6 -> /\ data["peso_faixa"] = (IF text = <<"6">> THEN <<100>>
                                              ELSE <<WEIGHT_MAP[text][1], WEIGHT_MAP[text][2]>>)
                     /\ data["peso_kg_est"] = WEIGHT_MAP[text][3]
      [] step = 7 -> data["atividade"] = ACTIVITY_CHOICE[text]
      [] step = 8 -> data["objetivo"] = OBJECTIVE_CHOICE[text]
      [] step = 9 -> data["restricoes"] = RESTR_CHOICE[text]
      [] step = 10 -> data = DataBefore
      [] step = 12 -> data["meal_count"] = MEAL_CHOICE[text]

\* C10: a valid token at a multiple-choice step moves the step to its defined
\* successor and stores the lookup table's entry for the token in the profile field
\* of the question (height choice 3: range 170-179, estimate 175).
C10_ValidAdvancesAndStores ==
    (Asked /\ StepBefore \in ClosedSteps \ {11} /\ TextAsked \in Allowed(StepBefore))
        => (StepAfter = Successor(StepBefore, TextAsked) /\ Stored(StepBefore, TextAsked, DataAfter))

\* height choice 3 has just been given at the height question
C10_HeightThreeStored ==
    /\ Asked /\ StepBefore = 5 /\ TextAsked = <<"3">>
    /\ StepAfter = 6 /\ DataAfter["altura_cm_est"] = 175

\* the media references the last message carried
MediaAsked == last_op.media

\* C11 as stated: at the photo step (92) a message that is the skip keyword pular
\* without media, or that carries at least one media reference, moves the user on to
\* the training-hour question (step 100), and the profile holds at most 3 references.
C11_SkipOrMediaMovesOn ==
    (Asked /\ StepBefore = 92 /\ ((TextAsked = PULAR /\ MediaAsked = <<>>) \/ MediaAsked # <<>>))
        => (StepAfter = 100 /\ Len(Get(DataAfter, "fotos", <<>>)) <= 3)

\* the record the last message left, and its schedule before and after
ScheduleBefore == ScheduleOf(last_op.before)

ScheduleAfter == ScheduleOf(db[last_op.uid])

\* the four reset commands, as the user may type them
ResetInputs == {<<"r", "e", "i", "n", "i", "c", "i", "a", "r">>, <<"r", "e", "s", "e", "t">>,
                <<"r", "e", "c", "o", "m", "e", "c_cedilla", "a", "r">>,
                <<"r", "e", "c", "o", "m", "e", "c", "a", "r">>}

\* C12: from any step, the input reiniciar, reset, recomecar (with or without the
\* cedilla) leaves a persisted record with step 0, an empty profile and an empty
\* schedule.last marker map.
C12_ResetClearsRecord ==
    (Asked /\ TextAsked \in ResetInputs)
        => /\ StepAfter = 0
           /\ DataAfter = EmptyDict
           /\ Has(ScheduleAfter, "last") /\ ScheduleAfter["last"] = EmptyDict

\* a reset command has just reached an enrolled user whose record held a profile and markers
C12_ResetAfterMarkers ==
    /\ Asked /\ TextAsked \in ResetInputs
    /\ StepBefore = 999
    /\ DataBefore # EmptyDict
    /\ Get(ScheduleBefore, "last", EmptyDict) # EmptyDict
    /\ StepAfter = 0

\* the six greeting tokens
Greetings == {<<"o", "i">>, <<"o", "l", "a">>, <<"o", "l", "a_acute">>,
              <<"b", "o", "m", " ", "d", "i", "a">>, <<"b", "o", "a", " ", "t", "a", "r", "d", "e">>,
              <<"b", "o", "a", " ", "n", "o", "i", "t", "e">>}

\* C13: a greeting token received while the step is strictly between the initial
\* and the terminal state leaves step, profile and schedule unchanged.
C13_GreetingMidFlowKeeps ==
    (Asked /\ TextAsked \in Greetings /\ 0 < StepBefore /\ StepBefore < 999)
        => (StepAfter = StepBefore /\ DataAfter = DataBefore /\ ScheduleAfter = ScheduleBefore)

\* a greeting has just arrived in mid-questionnaire, after a tick had written markers
C13_GreetingAfterAnswers ==
    /\ Asked /\ TextAsked \in Greetings
    /\ StepBefore = 7
    /\ DataBefore # EmptyDict
    /\ Get(ScheduleBefore, "last", EmptyDict) # EmptyDict
    /\ StepAfter = 7

\* C14: at step 0 an input that is neither a greeting token nor a reset command
\* leaves the record at step 0 with its profile unchanged; a greeting token sets the
\* step to 1 (name question) and replaces the profile with an empty one.
C14_StepZero ==
    (Asked /\ StepBefore = 0)
        => /\ (TextAsked \notin Greetings /\ TextAsked \notin ResetInputs)
                  => (StepAfter = 0 /\ DataAfter = DataBefore)
           /\ TextAsked \in Greetings => (StepAfter = 1 /\ DataAfter = EmptyDict)

\* a record that had been through the questionnaire and back to step 0 has just been greeted
C14_GreetedAtZero ==
    /\ Asked /\ StepBefore = 0 /\ TextAsked \in Greetings
    /\ Has(last_op.before, "last_from")
    /\ StepAfter = 1 /\ DataAfter = EmptyDict

\* the six results the confirmation stores, computed from the profile it found
Results(data) ==
    LET tmb == _calc_tmb_mifflin(data["sexo"], data["peso_kg_est"], data["altura_cm_est"], data["idade_exata"])
        cal == Max2(1200, _round(_apply_objective(_calc_get(tmb, data["atividade"]), data["objetivo"]), 1600, 10))
        mac == _calc_macros(data["peso_kg_est"], cal)
    IN [tmb |-> RoundHalfEven(tmb, 4), tdee |-> TdeeRounded(tmb, data["atividade"]), calorias |-> cal,
        prot_g |-> mac[1], carb_g |-> mac[2], gord_g |-> mac[3]]

\* "1" at the confirmation: step 12, the six results stored, the answers kept
ConfirmedOne ==
    /\ StepAfter = 12
    /\ DOMAIN DataAfter = DOMAIN DataBefore \cup DOMAIN Results(DataBefore)
    /\ \A k \in DOMAIN Results(DataBefore) : DataAfter[k] = Results(DataBefore)[k]
    /\ \A k \in DOMAIN DataBefore \ DOMAIN Results(DataBefore) : DataAfter[k] = DataBefore[k]

\* C15 as stated: at the confirmation step (11) input 2 sets the step to 0 and
\* empties the profile, input 1 stores BMR, TDEE, target calories and the three
\* macro gram values and moves to the meal-count question (step 12), and any other
\* input leaves step and profile unchanged.
C15_AtConfirmation ==
    (Asked /\ StepBefore = 11)
        => /\ TextAsked = <<"2">> => (StepAfter = 0 /\ DataAfter = EmptyDict)
           /\ TextAsked = <<"1">> => ConfirmedOne
           /\ TextAsked \notin {<<"1">>, <<"2">>} => (StepAfter = 11 /\ DataAfter = DataBefore)

\* C15 amended: ... and any other input that is not a reset command leaves step and
\* profile unchanged (a reset command gives step 0 and an empty profile, as from
\* every step).
C15_AtConfirmationButReset ==
    (Asked /\ StepBefore = 11)
        => /\ TextAsked = <<"2">> => (StepAfter = 0 /\ DataAfter = EmptyDict)
           /\ TextAsked = <<"1">> => ConfirmedOne
           /\ (TextAsked \notin {<<"1">>, <<"2">>} /\ TextAsked \notin ResetInputs)
                  => (StepAfter = 11 /\ DataAfter = DataBefore)
           /\ TextAsked \in ResetInputs => (StepAfter = 0 /\ DataAfter = EmptyDict)

\* the summary has just been confirmed and the results are in the profile
C15_Confirmed ==
    /\ Asked /\ StepBefore = 11 /\ TextAsked = <<"1">>
    /\ StepAfter = 12
    /\ ~Has(DataBefore, "calorias") /\ Has(DataAfter, "calorias")

\* the states of the state table
DefinedSteps == (0..12) \cup {91, 92, 100, 101, 102, 999}

\* C16: after any sequence of inbound messages and dispatcher ticks that starts from
\* a newly created record, the step of every stored record is one of the defined
\* states 0..12, 91, 92, 100, 101, 102, 999.
C16_StepIsDefined == \A u \in DOMAIN db : Has(db[u], "step") /\ db[u]["step"] \in DefinedSteps

\* a tick has just run on a record that messages had brought to the photo sub-step
C16_TickAtSubStep ==
    /\ Ticked /\ handled > 0
    /\ "5571" \in DOMAIN db /\ db["5571"]["step"] = 92
    /\ SlotsTo(last_op.sent, "5571") # {}

\* the summary has just been confirmed
JustConfirmed == Asked /\ StepBefore = 11 /\ TextAsked = <<"1">> /\ StepAfter = 12

\* C17: for every combination of answers the questionnaire can store (sex, exact age
\* 11..99 or a bracket's estimate, height, weight, activity, objective) the target
\* calories stored at the confirmation are at least 1200 and a multiple of 10.
C17_FloorAndMultipleOfTen ==
    JustConfirmed => (DataAfter["calorias"] >= 1200 /\ DataAfter["calorias"] % 10 = 0)

\* a profile whose computed target lies below 1200 kcal has been confirmed and got the floor
C17_FloorApplied ==
    /\ JustConfirmed
    /\ DataAfter["calorias"] = 1200
    /\ _apply_objective(_calc_get(_calc_tmb_mifflin(DataBefore["sexo"], DataBefore["peso_kg_est"],
                                                    DataBefore["altura_cm_est"], DataBefore["idade_exata"]),
                                  DataBefore["atividade"]), DataBefore["objetivo"]) < 1200 * 1600

\* the profile (male, 75 kg, 175 cm, 30 years) has just been confirmed
ConfirmedMale75 ==
    /\ JustConfirmed
    /\ DataBefore["sexo"] = "Masculino" /\ DataBefore["peso_kg_est"] = 750
    /\ DataBefore["altura_cm_est"] = 175 /\ DataBefore["idade_exata"] = 30

\* the BMR function on the confirmed profile, in quarters of a kcal
BmrOfConfirmed ==
    _calc_tmb_mifflin(DataBefore["sexo"], DataBefore["peso_kg_est"], DataBefore["altura_cm_est"],
                      DataBefore["idade_exata"])

\* 10 * 75 + 6.25 * 175 - 5 * 30 + 5, in quarters of a kcal
MifflinMale75 == 40 * 75 + 25 * 175 - 20 * 30 + 20

\* C18 as stated: the BMR function applied to (male, 75 kg, 175 cm, 30 years) returns
\* 1680.0, and this equals 10*75 + 6.25*175 - 5*30 + 5.
C18_BmrIs1680 == ConfirmedMale75 => (BmrOfConfirmed = 4 * 1680 /\ BmrOfConfirmed = MifflinMale75)

\* C18 amended: the BMR function applied to (male, 75 kg, 175 cm, 30 years) returns
\* 1698.75, which equals 10*75 + 6.25*175 - 5*30 + 5; the profile stores it rounded, 1699.
C18_BmrIs1698_75 ==
    ConfirmedMale75 => (BmrOfConfirmed = 6795 /\ BmrOfConfirmed = MifflinMale75 /\ DataAfter["tmb"] = 1699)

\* that profile has been confirmed with activity Leve and objective Manutencao
C18_Male75Confirmed ==
    /\ ConfirmedMale75
    /\ DataBefore["atividade"] = "Leve" /\ DataBefore["objetivo"] = "Manutencao"
    /\ Has(DataAfter, "tmb")

\* the steps the end-to-end sequence goes through, message by message
PathSteps == <<0, 1, 2, 3, 4, 5, 6, 7, 8, 9, 10, 100, 101, 102, 11, 12, 999>>

\* BMR(male, 75, 175, 39) x 1.40 x 0.85, rounded to the nearest 10, with floor 1200
TargetMale75Age39 ==
    Max2(1200, _round(_apply_objective(_calc_get(_calc_tmb_mifflin("Masculino", 750, 175, 39), "Leve"),
                                       "Emagrecimento"), 1600, 10))

\* C19: from a new user the sequence greeting, name, sex 1, age bracket 3 (exact age
\* not parseable, estimate 39), height 3, weight 3, activity 2, objective 1,
\* restriction 1, photos skipped, any valid training hour, feeding window and mute
\* window, confirm 1, meal count 2 advances with every message and reaches the
\* completed state (999) with schedule.enabled = true and stored target calories
\* BMR(male,75,175,39) x 1.40 x 0.85 rounded to the nearest 10 with floor 1200 = 1970.
C19_EndToEnd ==
    /\ handled + 1 \in DOMAIN PathSteps
    /\ StepOf("5571") = PathSteps[handled + 1]
    /\ handled = Len(PathSteps) - 1
          => /\ db["5571"]["step"] = 999
             /\ Has(ScheduleOf(db["5571"]), "enabled") /\ ScheduleOf(db["5571"])["enabled"] = TRUE
             /\ DataOf(db["5571"])["idade_exata"] = 39
             /\ DataOf(db["5571"])["calorias"] = 1970
             /\ DataOf(db["5571"])["calorias"] = TargetMale75Age39

\* the sequence has been completed with a typed training hour and typed windows
C19_Completed ==
    /\ handled = Len(PathSteps) - 1
    /\ db["5571"]["step"] = 999
    /\ DataOf(db["5571"])["training_hour"] = 15
    /\ DataOf(db["5571"])["feeding_window"] = <<9, 17>>
    /\ DataOf(db["5571"])["mute_hours"] = <<1, 4>>
    /\ DataOf(db["5571"])["meal_count"] = 4

\* C20: over the ticks of the dispatcher the weekly check-in is emitted only by ticks
\* whose weekday is Monday and whose hour is 8 or later, and at most once per calendar
\* date for as long as the user sends no reset command between the ticks (hence also
\* when the user sends nothing at all in between).
C20_CheckInMondayOnce ==
    /\ Ticked => \A m \in last_op.sent :
                    m.slot = "checkin" => (Weekday(last_op.day) = 0 /\ last_op.hour >= 8)
    /\ \A u \in Users : "checkin" \notin dupSinceReset[u]

\* a tick of a later hour of the Monday has served an enrolled user who already had
\* the check-in of the day, and has not sent it again
C20_SecondHourSilent ==
    /\ Ticked
    /\ Weekday(last_op.day) = 0 /\ last_op.hour >= 9
    /\ \E u \in Users :
          /\ last_op.fault[u] = "ok"
          /\ Enrolled(last_op.before[u])
          /\ Get(ScheduleOf(last_op.before[u])["last"], "checkin", "") = DateStr(last_op.day)
          /\ "checkin" \in sentToday[u]
          /\ "checkin" \notin SlotsTo(last_op.sent, u)

\* the threads that have loaded the document and not yet saved it
Holding == {t \in Threads : cron[t] # Idle /\ cron[t].pc \in {"loaded", "remember", "replying"}}

\* C21: every load-mutate-save cycle holds the single document lock from its load to
\* its save, so while one cycle (a handler's or a tick's) is between its load and its
\* save no other cycle has loaded the document.
C21_OneCycleAtATime == Cardinality(Holding) <= 1

\* the record of u in the document carries what u's last handler run saved: the
\* destination, the step, the profile and the schedule.enabled flag
HandlerChangeKept(u) ==
    wrote[u] # Unwritten =>
        /\ u \in DOMAIN db
        /\ Get(db[u], "last_from", "") = Get(wrote[u], "last_from", "")
        /\ Get(db[u], "step", 0) = Get(wrote[u], "step", 0)
        /\ DataOf(db[u]) = DataOf(wrote[u])
        /\ Has(ScheduleOf(db[u]), "enabled") = Has(ScheduleOf(wrote[u]), "enabled")
        /\ Get(ScheduleOf(db[u]), "enabled", FALSE) = Get(ScheduleOf(wrote[u]), "enabled", FALSE)

\* the record of u in the document carries the marker of every slot the ticks emitted
TickMarkersKept(u) ==
    \A slot \in sentToday[u] : u \in DOMAIN db /\ Marked(db[u], slot, now.day, now.hour)

\* C22: when the handling of an inbound message and a tick overlap, then after both
\* have finished the document holds the handler's change and the tick's markers.
C22_BothUpdatesKept ==
    Holding = {} /\ cron["bot"] = Idle => \A u \in Users : HandlerChangeKept(u) /\ TickMarkersKept(u)

\* a call of fn has returned
Called(fn) == last_op.kind = "call" /\ last_op.fn = fn /\ last_op.done

Ascending(q) == \A i \in 1..(Len(q) - 1) : q[i] < q[i + 1]

Within(q, A, B) == \A i \in 1..Len(q) : A <= q[i] /\ q[i] <= B

\* C23: for every total >= 1 and every number of meals n >= 1, _split_by_meals returns
\* exactly n parts, none negative, that sum to the total and differ from one another by
\* at most 1.
C23_SplitIsFair ==
    Called("_split_by_meals") =>
        LET parts == last_op.ret
        IN /\ Len(parts) = last_op.args.meals
           /\ SumSeq(parts) = last_op.args.total
           /\ \A i \in 1..Len(parts) : parts[i] >= 0
           /\ \A i, j \in 1..Len(parts) : parts[i] - parts[j] <= 1

\* 10 in 4 parts: the rounded share is 2 and two parts are raised
C23_TenInFour ==
    Called("_split_by_meals") /\ last_op.args = [total |-> 10, meals |-> 4] /\ last_op.ret = <<3, 3, 2, 2>>

\* C24: for a window with 0 <= A <= B <= 23 and n >= 2, _distribute_meal_hours returns a
\* strictly ascending list of at most n hours, all inside [A, B], that starts with A and
\* ends with B ([8, 20] and n = 4 give 8, 12, 16, 20); n = 1 gives [A]; A > B gives the
\* empty list.
C24_HoursSpanTheWindow ==
    Called("_distribute_meal_hours") =>
        LET a == last_op.args
            r == last_op.ret
        IN /\ a.A > a.B => r = <<>>
           /\ a.A <= a.B /\ a.count = 1 => r = <<a.A>>
           /\ a.A <= a.B /\ a.count >= 2 =>
                 /\ Ascending(r) /\ Within(r, a.A, a.B)
                 /\ Len(r) >= 1 /\ Len(r) <= a.count
                 /\ r[1] = a.A /\ r[Len(r)] = a.B
           /\ a = [A |-> 8, B |-> 20, count |-> 4] => r = <<8, 12, 16, 20>>

\* six meals in a window of three hours: the hours that coincide are merged
C24_NarrowWindow ==
    Called("_distribute_meal_hours") /\ last_op.args = [A |-> 10, B |-> 12, count |-> 6]
    /\ last_op.ret = <<10, 11, 12>>

\* C25: for all hours h, M, N in 0..23, _in_mute(h, M, N) is M <= h < N when M < N, is
\* (h >= M or h < N) when M > N, and is true when M = N; the window [22, 5] mutes 23 h and
\* does not mute 6 h.
C25_MuteWindow ==
    Called("_in_mute") =>
        LET a == last_op.args
        IN /\ a.M < a.N => (last_op.ret <=> (a.M <= a.hour /\ a.hour < a.N))
           /\ a.M > a.N => (last_op.ret <=> (a.hour >= a.M \/ a.hour < a.N))
           /\ a.M = a.N => last_op.ret
           /\ a = [hour |-> 23, M |-> 22, N |-> 5] => last_op.ret
           /\ a = [hour |-> 6, M |-> 22, N |-> 5] => ~last_op.ret

C25_MutedAcrossMidnight ==
    Called("_in_mute") /\ last_op.args = [hour |-> 23, M |-> 22, N |-> 5] /\ last_op.ret

\* the first of the slots of m that are nearest to target
Nearest(m, target) ==
    CHOOSE k \in 1..Len(m) :
        /\ \A j \in 1..Len(m) : Abs(m[k] - target) <= Abs(m[j] - target)
        /\ \A j \in 1..Len(m) : Abs(m[j] - target) = Abs(m[k] - target) => k <= j

\* C27: for a window 0 <= A <= B <= 23, the meal list the distribution produces for it
\* and a training hour T inside [A, B], _force_post_workout returns an ascending list
\* without duplicates, of the same length, that contains min(B, T + 1); when that hour
\* was absent exactly one slot is replaced by it, the nearest one (the earliest on a
\* tie); when T is absent or outside [A, B] the list is returned as it was.
C27_PostWorkoutSlot ==
    Called("_force_post_workout") =>
        LET a == last_op.args
            r == last_op.ret
            m == _distribute_meal_hours(a.A, a.B, a.count)
            target == Min2(a.B, a.T + 1)
        IN IF a.T = NoneT \/ a.T < a.A \/ a.T > a.B THEN r = m
           ELSE /\ Ascending(r)
                /\ Len(r) = Len(m)
                /\ target \in SeqSet(r)
                /\ target \in SeqSet(m) => r = m
                /\ target \notin SeqSet(m) =>
                      SeqSet(r) = (SeqSet(m) \ {m[Nearest(m, target)]}) \cup {target}

\* training at 13 h in [8, 20] with 4 meals: 14 h is as far from 12 h as from 16 h, and
\* the 12 h meal moves
C27_TieMovesTheEarlier ==
    Called("_force_post_workout") /\ last_op.args = [A |-> 8, B |-> 20, count |-> 4, T |-> 13]
    /\ last_op.ret = <<8, 14, 16, 20>>

\* C28: for every feeding window [A, B] and every meal list of a user's day, the
\* hydration slots are at most 3, strictly ascending, each inside [A, B], and none is a
\* meal hour of that day; when A > B there is none.
C28_WaterBetweenMeals ==
    Called("_water_slots") =>
        LET a == last_op.args
            water == last_op.ret.water
            planned == _force_post_workout(_distribute_meal_hours(a.A, a.B, a.count), a.A, a.B, a.T)
        IN /\ Len(water) <= 3
           /\ Ascending(water)
           /\ Within(water, a.A, a.B)
           /\ SeqSet(water) \cap SeqSet(last_op.ret.meals) = {}
           /\ {h \in SeqSet(water) : not_muted(a.mute, h)} \cap SeqSet(planned) = {}
           /\ a.A > a.B => water = <<>>

\* 4 meals in [8, 12] are at 8, 9, 11 and 12 h: of the midpoints 8, 10 and 12 only 10 h
\* is free
C28_MidpointsOnMealsDropped ==
    Called("_water_slots") /\ last_op.args = [A |-> 8, B |-> 12, count |-> 4, T |-> NoneT, mute |-> <<>>]
    /\ last_op.ret.meals = <<8, 9, 11, 12>> /\ last_op.ret.water = <<10>>

\* C26: in every reachable state a stored feeding window [A, B] has 0 <= A <= B <= 23:
\* the feeding-window step (101) never stores a window that starts later than it ends.
C26_WindowStartsBeforeEnd ==
    \A u \in DOMAIN db :
        Has(DataOf(db[u]), "feeding_window") =>
            LET fw == DataOf(db[u])["feeding_window"]
            IN 0 <= fw[1] /\ fw[1] <= fw[2] /\ fw[2] <= 23

\* what build_reply answers before it looks at the step: test codes, status and reset words
GlobalCommands == {TEST_SECRET, TEST_SECRET_OFF, TEST_SECRET_STATUS} \cup STATUS_WORDS \cup ResetInputs

\* C29: at the exact-age step (4) every input other than a global command, a greeting
\* token or a question the Q&A collaborator answers moves the user to step 5 with no
\* re-prompt; the exact age stored is the integer the input's digits form when it is
\* strictly between 10 and 100, and the bracket estimate of the previous step otherwise.
C29_AgeStepNeverBlocks ==
    /\ Asked
    /\ StepBefore = 4
    /\ TextAsked \notin GlobalCommands \cup Greetings
    /\ ~(last_op.ai /\ TextAsked \in {Lower(Strip(q)) : q \in Questions})
    => LET typed == DigitsValue(SelectSeq(last_op.body, LAMBDA ch : ch \in SeqSet(DigitChars)))
       IN /\ StepAfter = 5
          /\ DataAfter = Put(DataBefore, "idade_exata",
                             IF 10 < typed /\ typed < 100 THEN typed ELSE DataBefore["idade_estimada"])

\* "100" typed at step 4: the estimate of the age bracket is stored and the height question follows
C29_HundredFallsBack ==
    /\ Asked /\ StepBefore = 4 /\ last_op.body = <<"1", "0", "0">>
    /\ StepAfter = 5 /\ DataAfter["idade_exata"] = DataBefore["idade_estimada"]

\* C30: the integer a tick returns is the number of reminder messages emitted to all
\* users in that tick, a message counting as emitted only when the send call made for
\* it reported success.
C30_ReturnCountsDelivered ==
    Ticked => last_op.ret = Cardinality({m \in last_op.sent : m.ok})

\* the record without its markers: every field but schedule, and every field of schedule but last
Unmarked(u) ==
    [k \in DOMAIN u |-> IF k = "schedule" THEN [j \in (DOMAIN u[k]) \ {"last"} |-> u[k][j]] ELSE u[k]]

MarkersOf(u) == Get(ScheduleOf(u), "last", EmptyDict)

\* the markers of record v that record u does not have with the same value
NewMarkers(u, v) == {k \in DOMAIN MarkersOf(v) : Get(MarkersOf(u), k, "") # MarkersOf(v)[k]}

\* C31: a tick that overlaps with no inbound message changes no user's step, profile,
\* destination or schedule.enabled: all it modifies are entries of schedule.last, and
\* only of users to whom it emitted a message in that tick (the entries of the slots
\* emitted).
C31_TickTouchesMarkersOnly ==
    Ticked =>
        /\ DOMAIN db = DOMAIN last_op.before
        /\ \A u \in DOMAIN db :
              /\ Unmarked(db[u]) = Unmarked(last_op.before[u])
              /\ Has(ScheduleOf(db[u]), "last") = Has(ScheduleOf(last_op.before[u]), "last")
              /\ DOMAIN MarkersOf(last_op.before[u]) \subseteq DOMAIN MarkersOf(db[u])
              /\ NewMarkers(last_op.before[u], db[u]) = SlotsTo(last_op.sent, u)

\* a tick that emitted to one user and not to the other: the first one's markers grew,
\* the second one's record is as it was
C31_OneMarkedOneUntouched ==
    /\ Ticked
    /\ \E u, v \in DOMAIN db :
          /\ SlotsTo(last_op.sent, u) # {} /\ db[u] # last_op.before[u]
          /\ SlotsTo(last_op.sent, v) = {} /\ db[v] = last_op.before[v]

\* a run of the scheduler's tick has just finished, in either mode
SchedulerTicked == last_op.kind \in {"cron", "test"}

\* C32: whether the scheduler's ticks deliver a user's due reminders does not depend on
\* what a different user sends (the test commands #ativar3m / #desativar3m included):
\* whatever the first user has sent, every tick emits to the second user the slots that
\* are due by the second user's own record and the clock, as it does when the first
\* user sends nothing.
C32_OthersMessagesDoNotMatter ==
    SchedulerTicked =>
        \A b \in Users \ Writers :
            SlotsTo(last_op.sent, b) = Due(last_op.before[b], last_op.day, last_op.hour)

\* C33: at the training-hour step (100), for every hour h in 0..23: after the user has
\* chosen option 8 (other) and then replies with the plain integer h, the training hour
\* stored is h and the step is the feeding-window question (101).
C33_TypedHourIsStored ==
    Asked /\ handled = 2 /\ StepBefore = 100 =>
        \A h \in 0..23 :
            last_op.body = PlainHour(h) => StepAfter = 101 /\ Get(DataAfter, "training_hour", NoneT) = h

\* what is collected by the questionnaire and what is computed at steps 11 and 12
CollectedFields ==
    {"sexo", "idade_estimada", "idade_exata", "altura_cm_est", "peso_kg_est", "atividade", "objetivo",
     "restricoes", "feeding_window"}

ComputedFields ==
    {"calorias", "prot_g", "carb_g", "gord_g", "meal_count", "split_kcal", "split_p", "split_c", "split_g",
     "agua_l", "agua_split"}

\* C34: whenever a user's persisted step is the completed value 999, the profile holds
\* every collected and computed field: sex, age, height and weight estimates, activity,
\* objective, restriction, feeding window, target calories, the three macro gram values,
\* a meal count in {3, 4, 5, 6}, the per-meal splits of calories and of each macro with
\* exactly meal-count parts, and the water target with its split in three parts.
C34_CompletedProfileIsWhole ==
    \A u \in DOMAIN db :
        Get(db[u], "step", 0) = 999 =>
            LET data == DataOf(db[u])
            IN /\ CollectedFields \cup ComputedFields \subseteq DOMAIN data
               /\ data["meal_count"] \in {3, 4, 5, 6}
               /\ \A k \in {"split_kcal", "split_p", "split_c", "split_g"} :
                     DOMAIN data[k] = 1..data["meal_count"]
               /\ DOMAIN data["agua_split"] = {"manha", "tarde", "noite"}

\* the meal-count question answered with 6+: the user is at 999 with six parts per split
C34_CompletedWithSixMeals ==
    /\ Asked /\ StepBefore = 12 /\ StepAfter = 999
    /\ DataAfter["meal_count"] = 6 /\ Len(DataAfter["split_kcal"]) = 6

====
